---- MODULE Spec2Model ----
(***************************************************************************)
(* Booking and installment-payment lifecycle of the rentverse core         *)
(* services: the relational store (bookings, leases, booking_conflicts,    *)
(* installments, invoices, rental_agreements, payment_transactions) and    *)
(* the request handlers of BookingController, each handler split at its    *)
(* awaited store / gateway round trips so that concurrent requests         *)
(* interleave exactly where the Node event loop lets them.                 *)
(*                                                                         *)
(* Conventions: money is an integer number of cents (the decimal(12,2)     *)
(* columns); a nullable column holds <<>> (null) or <<v>>; a row id is     *)
(* <<table, n>> (uuids of different tables never coincide); a calendar     *)
(* date is [y, m, d] with m in 0..11 as in the JavaScript Date API, the    *)
(* server running in UTC.                                                  *)
(***************************************************************************)
EXTENDS Integers, Sequences, FiniteSets, TLC

VARIABLES
  env,                  \* process.env: which secrets are configured
  now,                  \* the server clock (Date.now()), in ticks
  served,               \* number of requests accepted so far
  invoiceSeq,           \* number of invoices the gateway has issued
  bookings,             \* table bookings
  leases,               \* table leases
  bookingConflicts,     \* table booking_conflicts
  installments,         \* table installments
  invoices,             \* table invoices
  rentalAgreements,     \* table rental_agreements
  paymentTransactions,  \* table payment_transactions
  payment,              \* table payment
  properties,           \* table properties
  propertyTypes,        \* table property_types
  propertyFavorites,    \* table property_favorites
  cache,                \* the MemoryCache singleton: key -> {data, timestamp}
  pc,                   \* per request slot: the await the handler is parked at
  loc,                  \* per request slot: the handler's local variables
  resp,                 \* the last response sent
  lastCheck             \* the last checkAvailability query and its response

\* The catalogue tables and the read cache in front of their GET endpoints.
catalog == <<properties, propertyTypes, propertyFavorites, cache>>

vars == <<env, now, served, invoiceSeq, bookings, leases, bookingConflicts,
          installments, invoices, rentalAgreements, paymentTransactions,
          payment, pc, loc, resp, lastCheck, catalog>>

store == <<bookings, leases, bookingConflicts, installments, invoices,
           rentalAgreements, paymentTransactions, payment>>

(***************************************************************************)
(* Bounds of the model.                                                    *)
(***************************************************************************)
MaxRequests == 3
MaxTime == 1
MaxCount == 5

\* The request slots: how many requests can be in progress at once.
Procs == {1, 2}

Null == <<>>
Some(v) == <<v>>

NoUser == "none"
Users == {"u1", "u2"}

Id(table, n) == <<table, n>>

Response(code, error) == [code |-> code, error |-> error]

(***************************************************************************)
(* Column types of the store.                                              *)
(***************************************************************************)

\* A JavaScript number n / d is carried as the quotient <<n, d>> (in cents).
Quotient(n, d) == <<n, d>>

Abs(x) == IF x < 0 THEN 0 - x ELSE x

\* decimal(12,2): the text of a number is cast to numeric with two decimal
\* places, rounding half away from zero; "Infinity" and "NaN" (division by
\* zero) are not accepted by the column.
DecimalAccepts(q) == q[2] # 0

\* Variant of the cast that cuts the digits after the second off.
Decimal2Truncating(q) ==
  LET n == Abs(q[1])
      d == Abs(q[2])
      r == n \div d
  IN  IF (q[1] < 0) # (q[2] < 0) THEN 0 - r ELSE r

Decimal2(q) ==
  LET n == Abs(q[1])
      d == Abs(q[2])
      r == (2 * n + d) \div (2 * d)
  IN  IF (q[1] < 0) # (q[2] < 0) THEN 0 - r ELSE r

(***************************************************************************)
(* Date arithmetic of the JavaScript Date API (UTC).                       *)
(***************************************************************************)
IsLeapYear(y) == (y % 4 = 0 /\ y % 100 # 0) \/ y % 400 = 0

DaysInMonth(y, m) ==
  IF m = 1 THEN (IF IsLeapYear(y) THEN 29 ELSE 28)
  ELSE IF m \in {3, 5, 8, 10} THEN 30 ELSE 31

\* Date.prototype.setMonth(month) with month >= 0: the year and month are
\* normalised, and a day past the end of the target month rolls over into
\* the following month.
SetMonth(date, month) ==
  LET y == date.y + (month \div 12)
      m == month % 12
      dim == DaysInMonth(y, m)
  IN  IF date.d <= dim THEN [y |-> y, m |-> m, d |-> date.d]
      ELSE IF m = 11 THEN [y |-> y + 1, m |-> 0, d |-> date.d - dim]
      ELSE [y |-> y, m |-> m + 1, d |-> date.d - dim]

DateLE(a, b) ==
  \/ a.y < b.y
  \/ a.y = b.y /\ a.m < b.m
  \/ a.y = b.y /\ a.m = b.m /\ a.d <= b.d

(***************************************************************************)
(* Installment schedule generation (createBooking).                        *)
(***************************************************************************)
installmentAmount(totalAmount, installmentCount) ==
  Quotient(totalAmount, installmentCount)

\* for (let i = 1; i <= installmentCount; i++) { ... }
installmentRecords(bookingId, totalAmount, installmentCount, startDate) ==
  [i \in 1..installmentCount |->
     [bookingId |-> bookingId,
      installmentNumber |-> i,
      amount |-> installmentAmount(totalAmount, installmentCount),
      dueDate |-> SetMonth(startDate, startDate.m + (i - 1)),
      status |-> "UNPAID"]]

invoiceRecords(leaseId, totalAmount, installmentCount, startDate) ==
  [i \in 1..installmentCount |->
     [leaseId |-> leaseId,
      type |-> "RENT",
      amount |-> installmentAmount(totalAmount, installmentCount),
      dueDate |-> SetMonth(startDate, startDate.m + (i - 1)),
      status |-> "DUE"]]

\* A row of installments as the table stores it: the amount cast to
\* decimal(12,2), the payment columns null.
InstallmentRow(n, rec) ==
  [id |-> Id("installment", n),
   bookingId |-> rec.bookingId,
   installmentNumber |-> rec.installmentNumber,
   amount |-> Decimal2(rec.amount),
   dueDate |-> rec.dueDate,
   status |-> rec.status,
   paidAt |-> Null,
   paidAmount |-> Null,
   paymentMethod |-> Null,
   xenditInvoiceId |-> Null,
   xenditExternalId |-> Null]

InvoiceRow(n, rec) ==
  [id |-> Id("invoice", n),
   leaseId |-> rec.leaseId,
   type |-> rec.type,
   amount |-> Decimal2(rec.amount),
   dueDate |-> rec.dueDate,
   status |-> rec.status,
   paidAt |-> Null]

\* INSERT ... VALUES (rows): the new rows get the next ids.
InsertInstallments(table, recs) ==
  table \o [k \in 1..Len(recs) |-> InstallmentRow(Len(table) + k, recs[k])]

InsertInvoices(table, recs) ==
  table \o [k \in 1..Len(recs) |-> InvoiceRow(Len(table) + k, recs[k])]

BookingRow(n, propertyId, userId, ownerId, startDate, endDate, totalAmount, paymentType, installmentCount) ==
  [id |-> Id("booking", n),
   propertyId |-> propertyId,
   tenantId |-> userId,
   landlordId |-> ownerId,
   startDate |-> startDate,
   endDate |-> endDate,
   totalAmount |-> totalAmount,
   paymentType |-> paymentType,
   installmentCount |-> installmentCount,
   status |-> "PENDING",
   contractPdfUrl |-> Null]

LeaseRow(n, propertyId, userId, ownerId, startDate, endDate, rentAmount, bookingId) ==
  [id |-> Id("lease", n),
   propertyId |-> propertyId,
   tenantId |-> userId,
   landlordId |-> ownerId,
   startDate |-> startDate,
   endDate |-> endDate,
   rentAmount |-> Decimal2(rentAmount),
   status |-> "APPROVED",
   notes |-> bookingId]

ConflictRow(n, propertyId, startDate, endDate, bookingId) ==
  [id |-> Id("conflict", n),
   propertyId |-> propertyId,
   startDate |-> startDate,
   endDate |-> endDate,
   bookingId |-> bookingId]

RentalAgreementRow(n, leaseId, pdfUrl) ==
  [id |-> Id("agreement", n), leaseId |-> leaseId, pdfUrl |-> pdfUrl]

\* UPDATE table SET ... WHERE ...: Set(row) is applied to every row that
\* satisfies Where(row).
UpdateWhere(table, Where(_), Set(_)) ==
  [k \in DOMAIN table |-> IF Where(table[k]) THEN Set(table[k]) ELSE table[k]]

\* eq(column, value) on a nullable column: SQL's = is never true of a null.
SqlEq(a, b) == a # Null /\ b # Null /\ a = b

\* SELECT ... WHERE ...: the matching rows.
SelectWhere(table, Where(_)) ==
  {table[k] : k \in {j \in DOMAIN table : Where(table[j])}}

\* A row of payment_transactions. Its paidAt column is written and never read
\* by any handler, so the model leaves it out.
TransactionRow(n, installmentId, bookingId, amount, paymentMethod, paymentType, xenditInvoiceId, xenditExternalId, status) ==
  [id |-> Id("transaction", n),
   installmentId |-> installmentId,
   bookingId |-> bookingId,
   amount |-> amount,
   paymentMethod |-> paymentMethod,
   paymentType |-> paymentType,
   xenditInvoiceId |-> xenditInvoiceId,
   xenditExternalId |-> xenditExternalId,
   status |-> status]

(***************************************************************************)
(* Request handling: a handler runs from one await to the next in one      *)
(* step; Reply ends the request, Continue parks it at its next await.      *)
(***************************************************************************)
Reply(p, r) ==
  /\ pc' = [pc EXCEPT ![p] = "idle"]
  /\ loc' = [loc EXCEPT ![p] = Null]
  /\ resp' = r

Continue(p, label, locals) ==
  /\ pc' = [pc EXCEPT ![p] = label]
  /\ loc' = [loc EXCEPT ![p] = locals]
  /\ resp' = resp

\* A new request is taken by the first idle slot while the request budget
\* lasts (the slots are interchangeable).
Accept(p) ==
  /\ pc[p] = "idle"
  /\ \A q \in Procs : q < p => pc[q] # "idle"
  /\ served < MaxRequests
  /\ served' = served + 1

BookingOf(installment) == bookings[installment.bookingId[2]]

(***************************************************************************)
(* Inputs of the payment requests.                                         *)
(***************************************************************************)
UnknownInstallmentId == Id("installment", 0)

InstallmentIdInputs ==
  {installments[k].id : k \in DOMAIN installments} \cup {UnknownInstallmentId, Null}

PaymentMethodInputs == {"", "CASH", "BANK_TRANSFER", "BITCOIN"}

\* `installment_${installmentId}_${Date.now()}`
ExternalId(installmentId, t) == <<"installment", installmentId[2], t>>

ExternalIdInputs ==
  {ExternalId(installments[k].id, t) : k \in DOMAIN installments, t \in 0..now}
    \cup {ExternalId(UnknownInstallmentId, 0), Null}

XenditInvoiceId(n) == Id("xendit", n)

XenditInvoiceIdInputs == {XenditInvoiceId(n) : n \in 0..invoiceSeq}

(***************************************************************************)
(* processInstallmentPayment                                               *)
(***************************************************************************)
validPaymentMethods == {"BANK_TRANSFER", "CASH", "EWALLET", "CREDIT_CARD"}

\* Variant of the handler without its already-paid check.
PayAlreadyPaidUnchecked(installmentData) == FALSE

\* if (installmentData.status === 'PAID') return 400
PayAlreadyPaid(installmentData) == installmentData.status = "PAID"

\* validCashMethods.includes(paymentMethod) ? paymentMethod : 'CASH'
finalPaymentMethod(paymentMethod) ==
  IF paymentMethod \in {"CASH"} THEN paymentMethod ELSE "CASH"

\* Variant of the cash update that records the payment and leaves the status.
PayCashSetKeepingStatus(row, amount, method, t) ==
  [row EXCEPT !.paidAt = Some(t),
              !.paidAmount = Some(amount),
              !.paymentMethod = Some(method)]

\* .set({status: 'PAID', paidAt: new Date(), paidAmount: installmentData.amount, paymentMethod})
PayCashSet(row, amount, method, t) ==
  [row EXCEPT !.status = "PAID",
              !.paidAt = Some(t),
              !.paidAmount = Some(amount),
              !.paymentMethod = Some(method)]

\* Variant of the online update that also resets the status.
PayOnlineSetResettingStatus(row, externalId, invoiceId) ==
  [row EXCEPT !.xenditExternalId = externalId,
              !.xenditInvoiceId = invoiceId,
              !.status = "UNPAID"]

\* .set({xenditExternalId: externalId, xenditInvoiceId: xenditData.id})
PayOnlineSet(row, externalId, invoiceId) ==
  [row EXCEPT !.xenditExternalId = externalId,
              !.xenditInvoiceId = invoiceId]

\* What the handler does with a request up to its first write: validation,
\* the lookups of the installment and the already-paid check. The result is
\* the response it sends, or the await it goes on to with its locals. The
\* installment's existence and its booking's tenant never change, so the
\* three reads are one step; the read that decides is the join at their end.
PayDecision(userId, installmentId, paymentMethod) ==
  IF userId = NoUser
  THEN [next |-> "idle", response |-> Response(401, "User not authenticated")]
  ELSE IF installmentId = Null
  THEN [next |-> "idle", response |-> Response(400, "Installment ID is required")]
  ELSE IF paymentMethod # "" /\ paymentMethod \notin validPaymentMethods
  THEN [next |-> "idle", response |-> Response(400, "Invalid payment method")]
  ELSE
    LET allInstallments == SelectWhere(installments, LAMBDA r : r.id = installmentId)
        installmentResult == {r \in allInstallments : BookingOf(r).tenantId = userId}
    IN  IF allInstallments = {}
        THEN [next |-> "idle",
              response |-> Response(404, "Installment ID not found in database")]
        ELSE IF installmentResult = {}
        THEN [next |-> "idle",
              response |-> Response(404, "Installment not found or you do not have permission to access it")]
        ELSE
          LET installmentData == CHOOSE r \in installmentResult : TRUE
              booking == BookingOf(installmentData)
              locals == [kind |-> "pay",
                         installmentId |-> installmentId,
                         amount |-> installmentData.amount,
                         bookingId |-> booking.id,
                         paymentMethod |-> finalPaymentMethod(paymentMethod),
                         externalId |-> ExternalId(installmentId, now),
                         invoiceId |-> Null]
          IN  IF PayAlreadyPaid(installmentData)
              THEN [next |-> "idle",
                    response |-> Response(400, "Installment is already paid")]
              ELSE IF booking.paymentType = "CASH"
              THEN [next |-> "pay_cash_update", locals |-> locals]
              ELSE IF ~env.xenditKey
              THEN [next |-> "idle",
                    response |-> Response(500, "Xendit secret key not configured")]
              ELSE [next |-> "pay_online_invoice", locals |-> locals]

\* A handler's first step acts on its decision.
Decide(p, decision) ==
  IF decision.next = "idle"
  THEN Reply(p, decision.response)
  ELSE Continue(p, decision.next, decision.locals)

PayBegin(p) ==
  /\ Accept(p)
  /\ UNCHANGED <<catalog, env, now, invoiceSeq, store, lastCheck>>
  /\ \E userId \in Users \cup {NoUser}, installmentId \in InstallmentIdInputs,
        paymentMethod \in PaymentMethodInputs :
       Decide(p, PayDecision(userId, installmentId, paymentMethod))

PayCashUpdate(p) ==
  /\ pc[p] = "pay_cash_update"
  /\ LET l == loc[p]
         updateResult == SelectWhere(installments, LAMBDA r : r.id = l.installmentId)
     IN  /\ installments' = UpdateWhere(installments,
                                        LAMBDA r : r.id = l.installmentId,
                                        LAMBDA r : PayCashSet(r, l.amount, l.paymentMethod, now))
         /\ IF updateResult = {}
            THEN Reply(p, Response(500, "Failed to update installment status"))
            ELSE Continue(p, "pay_cash_insert", l)
  /\ UNCHANGED <<catalog, env, now, served, invoiceSeq, bookings, leases, bookingConflicts,
                 invoices, rentalAgreements, paymentTransactions, payment, lastCheck>>

PayCashInsert(p) ==
  /\ pc[p] = "pay_cash_insert"
  /\ LET l == loc[p]
     IN  paymentTransactions' = Append(paymentTransactions,
           TransactionRow(Len(paymentTransactions) + 1, l.installmentId, l.bookingId,
                          l.amount, l.paymentMethod, "CASH", Null, Null,
                          "COMPLETED"))
  /\ Reply(p, Response(200, "Cash payment recorded successfully"))
  /\ UNCHANGED <<catalog, env, now, served, invoiceSeq, bookings, leases, bookingConflicts,
                 installments, invoices, rentalAgreements, payment, lastCheck>>

\* Variant of the handler that stores the external id on the installment
\* before it calls the gateway.
PayOnlineInvoiceStoringFirst(p) ==
  /\ pc[p] = "pay_online_invoice"
  /\ installments' = UpdateWhere(installments,
                                 LAMBDA r : r.id = loc[p].installmentId,
                                 LAMBDA r : PayOnlineSet(r, loc[p].externalId, Null))
  /\ \/ /\ invoiceSeq' = invoiceSeq + 1
        /\ Continue(p, "pay_online_update",
                    [loc[p] EXCEPT !.invoiceId = XenditInvoiceId(invoiceSeq + 1)])
     \/ /\ invoiceSeq' = invoiceSeq
        /\ Reply(p, Response(500, "Failed to create payment invoice"))
  /\ UNCHANGED <<catalog, env, now, served, bookings, leases, bookingConflicts, invoices,
                 rentalAgreements, paymentTransactions, payment, lastCheck>>

\* fetch('https://api.xendit.co/v2/invoices'): the gateway issues an invoice
\* or the call fails.
PayOnlineInvoice(p) ==
  /\ pc[p] = "pay_online_invoice"
  /\ \/ /\ invoiceSeq' = invoiceSeq + 1
        /\ Continue(p, "pay_online_update",
                    [loc[p] EXCEPT !.invoiceId = XenditInvoiceId(invoiceSeq + 1)])
     \/ /\ invoiceSeq' = invoiceSeq
        /\ Reply(p, Response(500, "Failed to create payment invoice"))
  /\ UNCHANGED <<catalog, env, now, served, store, lastCheck>>

PayOnlineUpdate(p) ==
  /\ pc[p] = "pay_online_update"
  /\ LET l == loc[p]
     IN  installments' = UpdateWhere(installments,
                                     LAMBDA r : r.id = l.installmentId,
                                     LAMBDA r : PayOnlineSet(r, l.externalId, l.invoiceId))
  /\ Continue(p, "pay_online_insert", loc[p])
  /\ UNCHANGED <<catalog, env, now, served, invoiceSeq, bookings, leases, bookingConflicts,
                 invoices, rentalAgreements, paymentTransactions, payment, lastCheck>>

PayOnlineInsert(p) ==
  /\ pc[p] = "pay_online_insert"
  /\ LET l == loc[p]
     IN  paymentTransactions' = Append(paymentTransactions,
           TransactionRow(Len(paymentTransactions) + 1, l.installmentId, l.bookingId,
                          l.amount, "BANK_TRANSFER", "ONLINE", l.invoiceId, l.externalId,
                          "PENDING"))
  /\ Reply(p, Response(200, "Payment invoice created successfully"))
  /\ UNCHANGED <<catalog, env, now, served, invoiceSeq, bookings, leases, bookingConflicts,
                 installments, invoices, rentalAgreements, payment, lastCheck>>

(***************************************************************************)
(* handleXenditWebhook                                                     *)
(***************************************************************************)
WebhookStatusInputs == {"PAID", "EXPIRED"}
WebhookMethodInputs == {"", "EWALLET"}

\* The amounts a webhook body may report: an installment's amount, or less.
WebhookAmountInputs ==
  UNION {{installments[k].amount, installments[k].amount - 100} : k \in DOMAIN installments}

\* process.env.XENDIT_WEBHOOK_TOKEN && callbackToken !== process.env.XENDIT_WEBHOOK_TOKEN
WebhookRejected(tokenConfigured, tokenMatches) == tokenConfigured /\ ~tokenMatches

\* .set({status: 'PAID', paidAt: new Date(paid_at), paidAmount: amount.toString(),
\*       paymentMethod: payment_method || 'BANK_TRANSFER'})
WebhookSet(row, amount, paid_at, payment_method) ==
  [row EXCEPT !.status = "PAID",
              !.paidAt = Some(paid_at),
              !.paidAmount = Some(amount),
              !.paymentMethod = Some(IF payment_method = "" THEN "BANK_TRANSFER"
                                     ELSE payment_method)]

\* .set({status: 'COMPLETED', paidAt}) on payment_transactions
CompleteTransaction(row) ==
  [row EXCEPT !.status = "COMPLETED"]

\* What the handler does with a delivery up to its first write: the token
\* check and the lookup by external id. An external id names its
\* installment, so the lookup's limit(1) has at most one row to pick.
WebhookDecision(tokenMatches, status, external_id, amount, paid_at, payment_method) ==
  IF WebhookRejected(env.webhookToken, tokenMatches)
  THEN [next |-> "idle", response |-> Response(401, "Invalid webhook token")]
  ELSE IF status = "PAID" /\ external_id # Null
  THEN LET found == SelectWhere(installments,
                                LAMBDA r : SqlEq(r.xenditExternalId, external_id))
       IN  IF found = {}
           THEN [next |-> "idle", response |-> Response(404, "Installment not found")]
           ELSE [next |-> "wh_update_installment",
                 locals |-> [kind |-> "webhook",
                             installmentId |-> (CHOOSE r \in found : TRUE).id,
                             externalId |-> external_id,
                             amount |-> amount,
                             paid_at |-> paid_at,
                             payment_method |-> payment_method]]
  ELSE [next |-> "idle", response |-> Response(200, "received")]

WebhookBegin(p) ==
  /\ Accept(p)
  /\ UNCHANGED <<catalog, env, now, invoiceSeq, store, lastCheck>>
  /\ \E tokenMatches \in BOOLEAN, status \in WebhookStatusInputs,
        external_id \in ExternalIdInputs, amount \in WebhookAmountInputs,
        paid_at \in 0..now, payment_method \in WebhookMethodInputs :
       Decide(p, WebhookDecision(tokenMatches, status, external_id, amount, paid_at,
                                 payment_method))

WebhookUpdateInstallment(p) ==
  /\ pc[p] = "wh_update_installment"
  /\ LET l == loc[p]
     IN  installments' = UpdateWhere(installments,
                                     LAMBDA r : r.id = l.installmentId,
                                     LAMBDA r : WebhookSet(r, l.amount, l.paid_at, l.payment_method))
  /\ Continue(p, "wh_update_transactions", loc[p])
  /\ UNCHANGED <<catalog, env, now, served, invoiceSeq, bookings, leases, bookingConflicts,
                 invoices, rentalAgreements, paymentTransactions, payment, lastCheck>>

\* .where(eq(paymentTransactions.xenditExternalId, externalId))
WebhookTransactionMatches(row, l) == SqlEq(row.xenditExternalId, l.externalId)

WebhookUpdateTransactions(p) ==
  /\ pc[p] = "wh_update_transactions"
  /\ LET l == loc[p]
     IN  paymentTransactions' = UpdateWhere(paymentTransactions,
                                            LAMBDA r : WebhookTransactionMatches(r, l),
                                            LAMBDA r : CompleteTransaction(r))
  /\ Reply(p, Response(200, "received"))
  /\ UNCHANGED <<catalog, env, now, served, invoiceSeq, bookings, leases, bookingConflicts,
                 installments, invoices, rentalAgreements, payment, lastCheck>>

(***************************************************************************)
(* manualPaymentConfirmation                                               *)
(***************************************************************************)
\* if (installment.status === 'PAID') return 400
ConfirmAlreadyPaid(installment) == installment.status = "PAID"

\* .set({status: 'PAID', paidAt: new Date(), paidAmount: installment.amount,
\*       paymentMethod: 'BANK_TRANSFER'})
ConfirmSet(row, amount, t) ==
  [row EXCEPT !.status = "PAID",
              !.paidAt = Some(t),
              !.paidAmount = Some(amount),
              !.paymentMethod = Some("BANK_TRANSFER")]

\* .where(eq(paymentTransactions.installmentId, installmentId))
ConfirmTransactionMatches(row, l) == SqlEq(row.installmentId, l.installmentId)

\* What GET /v2/invoices/:id answers: the invoice's status, or nothing usable
\* (a response that is not ok, or a failed call).
GatewayAnswers == {"PAID", "PENDING", "EXPIRED", "unavailable"}

ConfirmBegin(p) ==
  /\ Accept(p)
  /\ UNCHANGED <<catalog, env, now, invoiceSeq, store, lastCheck>>
  /\ \E userId \in Users \cup {NoUser}, installmentId \in InstallmentIdInputs,
        xenditInvoiceId \in XenditInvoiceIdInputs :
       IF userId = NoUser
       THEN Reply(p, Response(401, "User not authenticated"))
       ELSE LET found == SelectWhere(installments,
                           LAMBDA r : /\ r.id = installmentId
                                      /\ BookingOf(r).tenantId = userId
                                      /\ SqlEq(r.xenditInvoiceId, xenditInvoiceId))
            IN  IF found = {}
                THEN Reply(p, Response(404, "Installment not found or invalid invoice ID"))
                ELSE \E installment \in found :
                       IF ConfirmAlreadyPaid(installment)
                       THEN Reply(p, Response(400, "Installment already paid"))
                       ELSE Continue(p, "confirm_verify",
                                     [kind |-> "confirm",
                                      userId |-> userId,
                                      installmentId |-> installmentId,
                                      amount |-> installment.amount,
                                      xenditInvoiceId |-> xenditInvoiceId])

\* Variant of the handler that never asks the gateway.
ConfirmProceedsUnverified(answer) == TRUE

\* Only an ok answer whose status is not PAID stops the confirmation.
ConfirmProceeds(answer) == answer \in {"PAID", "unavailable"}

ConfirmVerify(p) ==
  /\ pc[p] = "confirm_verify"
  /\ \E answer \in GatewayAnswers :
       IF ~ConfirmProceeds(answer)
       THEN Reply(p, Response(400, "Payment not completed"))
       ELSE Continue(p, "confirm_update_installment", loc[p])
  /\ UNCHANGED <<catalog, env, now, served, invoiceSeq, store, lastCheck>>

ConfirmUpdateInstallment(p) ==
  /\ pc[p] = "confirm_update_installment"
  /\ LET l == loc[p]
     IN  installments' = UpdateWhere(installments,
                                     LAMBDA r : r.id = l.installmentId,
                                     LAMBDA r : ConfirmSet(r, l.amount, now))
  /\ Continue(p, "confirm_update_transactions", loc[p])
  /\ UNCHANGED <<catalog, env, now, served, invoiceSeq, bookings, leases, bookingConflicts,
                 invoices, rentalAgreements, paymentTransactions, payment, lastCheck>>

ConfirmUpdateTransactions(p) ==
  /\ pc[p] = "confirm_update_transactions"
  /\ LET l == loc[p]
     IN  paymentTransactions' = UpdateWhere(paymentTransactions,
                                            LAMBDA r : ConfirmTransactionMatches(r, l),
                                            LAMBDA r : CompleteTransaction(r))
  /\ Reply(p, Response(200, "Payment confirmed manually"))
  /\ UNCHANGED <<catalog, env, now, served, invoiceSeq, bookings, leases, bookingConflicts,
                 installments, invoices, rentalAgreements, payment, lastCheck>>

(***************************************************************************)
(* simulatePaymentSuccess                                                  *)
(***************************************************************************)
\* .set({status: 'PAID', paidAt: new Date(), paidAmount: installment.amount,
\*       paymentMethod: 'CREDIT_CARD'})
SimulateSet(row, amount, t) ==
  [row EXCEPT !.status = "PAID",
              !.paidAt = Some(t),
              !.paidAmount = Some(amount),
              !.paymentMethod = Some("CREDIT_CARD")]

SimulateBegin(p) ==
  /\ Accept(p)
  /\ UNCHANGED <<catalog, env, now, invoiceSeq, store, lastCheck>>
  /\ \E installmentId \in InstallmentIdInputs, externalId \in ExternalIdInputs :
       LET found == SelectWhere(installments,
                      LAMBDA r : r.id = installmentId /\ SqlEq(r.xenditExternalId, externalId))
       IN  IF found = {}
           THEN Reply(p, Response(404, "Installment not found"))
           ELSE \E installment \in found :
                  Continue(p, "sim_update_installment",
                           [kind |-> "simulate",
                            installmentId |-> installmentId,
                            externalId |-> externalId,
                            amount |-> installment.amount,
                            bookingId |-> installment.bookingId])

SimulateUpdateInstallment(p) ==
  /\ pc[p] = "sim_update_installment"
  /\ LET l == loc[p]
     IN  installments' = UpdateWhere(installments,
                                     LAMBDA r : r.id = l.installmentId,
                                     LAMBDA r : SimulateSet(r, l.amount, now))
  /\ Continue(p, "sim_update_invoices", loc[p])
  /\ UNCHANGED <<catalog, env, now, served, invoiceSeq, bookings, leases, bookingConflicts,
                 invoices, rentalAgreements, paymentTransactions, payment, lastCheck>>

\* .update(invoices).set({status: 'PAID', paidAt}).where(eq(invoices.leaseId, installment.bookingId))
SimulateUpdateInvoices(p) ==
  /\ pc[p] = "sim_update_invoices"
  /\ LET l == loc[p]
     IN  invoices' = UpdateWhere(invoices,
                                 LAMBDA r : r.leaseId = l.bookingId,
                                 LAMBDA r : [r EXCEPT !.status = "PAID", !.paidAt = Some(now)])
  /\ Continue(p, "sim_insert_transaction", loc[p])
  /\ UNCHANGED <<catalog, env, now, served, invoiceSeq, bookings, leases, bookingConflicts,
                 installments, rentalAgreements, paymentTransactions, payment, lastCheck>>

SimulateInsertTransaction(p) ==
  /\ pc[p] = "sim_insert_transaction"
  /\ LET l == loc[p]
     IN  paymentTransactions' = Append(paymentTransactions,
           TransactionRow(Len(paymentTransactions) + 1, l.installmentId, l.bookingId,
                          l.amount, "CREDIT_CARD", "ONLINE", Null, l.externalId,
                          "COMPLETED"))
  /\ Reply(p, Response(200, "Payment marked as successful"))
  /\ UNCHANGED <<catalog, env, now, served, invoiceSeq, bookings, leases, bookingConflicts,
                 installments, invoices, rentalAgreements, payment, lastCheck>>

(***************************************************************************)
(* The clock.                                                              *)
(***************************************************************************)
Tick ==
  /\ now < MaxTime
  /\ now' = now + 1
  /\ UNCHANGED <<catalog, env, served, invoiceSeq, store, pc, loc, resp, lastCheck>>

(***************************************************************************)
(* The payment requests against a store that one createBooking request     *)
(* has filled: a booking of tenant u1 with one installment, its payment    *)
(* type CASH or ONLINE.                                                    *)
(***************************************************************************)
\* .set({contractPdfUrl, contractGeneratedAt, status: 'CONFIRMED'})
ConfirmBookingSet(row, contractPdfUrl) ==
  [row EXCEPT !.contractPdfUrl = Some(contractPdfUrl), !.status = "CONFIRMED"]

SeedStart == [y |-> 2025, m |-> 2, d |-> 1]
SeedEnd == [y |-> 2025, m |-> 2, d |-> 31]

\* A started server: two approved properties are listed (the booking
\* handlers only read table properties), one property type exists, nobody
\* has a favourite yet, and the cache is empty.
InitCatalog ==
  /\ properties = <<[id |-> "P1", ownerId |-> "landlord1", status |-> "APPROVED"],
                    [id |-> "P2", ownerId |-> "landlord2", status |-> "APPROVED"]>>
  /\ propertyTypes = <<[id |-> "T1", name |-> "Villa"]>>
  /\ propertyFavorites = {}
  /\ cache = <<>>

InitRequests ==
  /\ now = 0
  /\ served = 0
  /\ invoiceSeq = 0
  /\ pc = [p \in Procs |-> "idle"]
  /\ loc = [p \in Procs |-> Null]
  /\ resp = Response(0, "")
  /\ lastCheck = Null
  /\ InitCatalog

InitPayments ==
  /\ InitRequests
  /\ env \in [xenditKey : BOOLEAN, webhookToken : BOOLEAN]
  /\ \E paymentType \in {"CASH", "ONLINE"} :
       bookings = <<ConfirmBookingSet(
                      BookingRow(1, "P1", "u1", "landlord", SeedStart, SeedEnd,
                                 40000, paymentType, 1),
                      "contract")>>
  /\ leases = <<LeaseRow(1, "P1", "u1", "landlord", SeedStart, SeedEnd,
                         installmentAmount(40000, 1), Id("booking", 1))>>
  /\ bookingConflicts = <<ConflictRow(1, "P1", SeedStart, SeedEnd, Id("booking", 1))>>
  /\ installments =
       InsertInstallments(<<>>, installmentRecords(Id("booking", 1), 40000, 1, SeedStart))
  /\ invoices = InsertInvoices(<<>>, invoiceRecords(Id("lease", 1), 40000, 1, SeedStart))
  /\ rentalAgreements = <<RentalAgreementRow(1, Id("lease", 1), "contract")>>
  /\ paymentTransactions = <<>>
  /\ payment = <<>>

PaymentStep(p) ==
  \/ PayBegin(p)
  \/ PayCashUpdate(p)
  \/ PayCashInsert(p)
  \/ PayOnlineInvoice(p)
  \/ PayOnlineUpdate(p)
  \/ PayOnlineInsert(p)
  \/ WebhookBegin(p)
  \/ WebhookUpdateInstallment(p)
  \/ WebhookUpdateTransactions(p)
  \/ ConfirmBegin(p)
  \/ ConfirmVerify(p)
  \/ ConfirmUpdateInstallment(p)
  \/ ConfirmUpdateTransactions(p)
  \/ SimulateBegin(p)
  \/ SimulateUpdateInstallment(p)
  \/ SimulateUpdateInvoices(p)
  \/ SimulateInsertTransaction(p)

NextPayments == Tick \/ \E p \in Procs : PaymentStep(p)

\* Requests arrive and run concurrently.
SpecPayments == InitPayments /\ [][NextPayments]_vars

\* Requests arrive one after the other: a step is taken only while no other
\* request is in progress.
NextPaymentsSeq ==
  Tick \/ \E p \in Procs : (\A q \in Procs \ {p} : pc[q] = "idle") /\ PaymentStep(p)

SpecPaymentsSeq == InitPayments /\ [][NextPaymentsSeq]_vars

(***************************************************************************)
(* checkAvailability and createBooking                                     *)
(***************************************************************************)
\* Variant of the overlap condition with gt / lt for gte / lte.
ConflictMatchesStrict(row, propertyId, startDate, endDate) ==
  /\ row.propertyId = propertyId
  /\ ~DateLE(row.endDate, startDate)
  /\ ~DateLE(endDate, row.startDate)

\* and(eq(propertyId), gte(bookingConflicts.endDate, startDate),
\*     lte(bookingConflicts.startDate, endDate))
ConflictMatches(row, propertyId, startDate, endDate) ==
  /\ row.propertyId = propertyId
  /\ DateLE(startDate, row.endDate)
  /\ DateLE(row.startDate, endDate)

conflictsOf(propertyId, startDate, endDate) ==
  SelectWhere(bookingConflicts,
              LAMBDA r : ConflictMatches(r, propertyId, startDate, endDate))

\* The response data of checkAvailability.
checkAvailability(propertyId, startDate, endDate) ==
  LET conflicts == conflictsOf(propertyId, startDate, endDate)
  IN  [available |-> conflicts = {}, conflicts |-> conflicts]

\* Variant of the handler without its payment type validation.
PaymentTypeUnchecked(paymentType) == FALSE

\* if (!paymentType || !['CASH', 'ONLINE'].includes(paymentType)) return 400
PaymentTypeInvalid(paymentType) == paymentType = "" \/ paymentType \notin {"CASH", "ONLINE"}

\* createBooking up to its first write: authentication, validation, the
\* property lookup and the availability re-check. Table properties is
\* constant, so the two reads are one step: the read that decides is the
\* select on booking_conflicts.
CreateDecision(userId, propertyId, startDate, endDate, totalAmount, paymentType, installmentCount) ==
  IF userId = NoUser
  THEN [next |-> "idle", response |-> Response(401, "User not authenticated")]
  ELSE IF PaymentTypeInvalid(paymentType)
  THEN [next |-> "idle",
        response |-> Response(400, "Payment type is required and must be either CASH or ONLINE")]
  ELSE
    LET property == SelectWhere(properties, LAMBDA r : r.id = propertyId)
    IN  IF property = {}
        THEN [next |-> "idle", response |-> Response(404, "Property not found")]
        ELSE IF conflictsOf(propertyId, startDate, endDate) # {}
        THEN [next |-> "idle",
              response |-> Response(400, "Property not available for selected dates")]
        ELSE [next |-> "create_insert_booking",
              locals |-> [kind |-> "create",
                          userId |-> userId,
                          propertyId |-> propertyId,
                          ownerId |-> (CHOOSE r \in property : TRUE).ownerId,
                          startDate |-> startDate,
                          endDate |-> endDate,
                          totalAmount |-> totalAmount,
                          paymentType |-> paymentType,
                          installmentCount |-> installmentCount,
                          bookingId |-> Null,
                          leaseId |-> Null,
                          contractPdfUrl |-> Null]]

\* The request bodies a specification sends: I lists the values of each field.
CreateBegin(p, I) ==
  /\ Accept(p)
  /\ UNCHANGED <<catalog, env, now, invoiceSeq, store, lastCheck>>
  /\ \E userId \in I.users, propertyId \in I.properties, startDate \in I.startDates,
        endDate \in I.endDates, totalAmount \in I.totals,
        paymentType \in I.paymentTypes, installmentCount \in I.counts :
       Decide(p, CreateDecision(userId, propertyId, startDate, endDate, totalAmount,
                                paymentType, installmentCount))

CreateFailed == Response(500, "Failed to create booking")

CreateInsertBooking(p) ==
  /\ pc[p] = "create_insert_booking"
  /\ LET l == loc[p]
         n == Len(bookings) + 1
     IN  /\ bookings' = Append(bookings,
                               BookingRow(n, l.propertyId, l.userId, l.ownerId, l.startDate,
                                          l.endDate, l.totalAmount, l.paymentType,
                                          l.installmentCount))
         /\ Continue(p, "create_insert_lease", [l EXCEPT !.bookingId = Id("booking", n)])
  /\ UNCHANGED <<catalog, env, now, served, invoiceSeq, leases, bookingConflicts, installments,
                 invoices, rentalAgreements, paymentTransactions, payment, lastCheck>>

\* rentAmount: (totalAmount / installmentCount).toString() must be a number
\* the decimal column accepts, or the insert throws.
CreateInsertLease(p) ==
  /\ pc[p] = "create_insert_lease"
  /\ LET l == loc[p]
         n == Len(leases) + 1
         rentAmount == installmentAmount(l.totalAmount, l.installmentCount)
     IN  IF DecimalAccepts(rentAmount)
         THEN /\ leases' = Append(leases,
                                  LeaseRow(n, l.propertyId, l.userId, l.ownerId, l.startDate,
                                           l.endDate, rentAmount, l.bookingId))
              /\ Continue(p, "create_insert_conflict", [l EXCEPT !.leaseId = Id("lease", n)])
         ELSE /\ leases' = leases
              /\ Reply(p, CreateFailed)
  /\ UNCHANGED <<catalog, env, now, served, invoiceSeq, bookings, bookingConflicts, installments,
                 invoices, rentalAgreements, paymentTransactions, payment, lastCheck>>

\* Variant of the table with an exclusion constraint on overlapping ranges.
InsertConflictExclusive(table, propertyId, startDate, endDate, bookingId) ==
  IF \E k \in DOMAIN table : ConflictMatches(table[k], propertyId, startDate, endDate)
  THEN <<FALSE, table>>
  ELSE <<TRUE, Append(table, ConflictRow(Len(table) + 1, propertyId, startDate, endDate, bookingId))>>

\* db.insert(bookingConflicts).values({...}): inserted unconditionally.
InsertConflict(table, propertyId, startDate, endDate, bookingId) ==
  <<TRUE, Append(table, ConflictRow(Len(table) + 1, propertyId, startDate, endDate, bookingId))>>

CreateInsertConflict(p) ==
  /\ pc[p] = "create_insert_conflict"
  /\ LET l == loc[p]
         inserted == InsertConflict(bookingConflicts, l.propertyId, l.startDate, l.endDate,
                                    l.bookingId)
     IN  /\ bookingConflicts' = inserted[2]
         /\ IF inserted[1]
            THEN Continue(p, "create_insert_installments", l)
            ELSE Reply(p, CreateFailed)
  /\ UNCHANGED <<catalog, env, now, served, invoiceSeq, bookings, leases, installments,
                 invoices, rentalAgreements, paymentTransactions, payment, lastCheck>>

\* Variant of the handler that undoes its inserts when the installments
\* cannot be written.
CreateInsertInstallmentsRollingBack(p) ==
  /\ pc[p] = "create_insert_installments"
  /\ LET l == loc[p]
         recs == installmentRecords(l.bookingId, l.totalAmount, l.installmentCount,
                                    l.startDate)
     IN  IF Len(recs) > 0
         THEN /\ installments' = InsertInstallments(installments, recs)
              /\ Continue(p, "create_insert_invoices", l)
              /\ UNCHANGED <<bookings, leases, bookingConflicts>>
         ELSE /\ installments' = installments
              /\ bookings' = SubSeq(bookings, 1, Len(bookings) - 1)
              /\ leases' = SubSeq(leases, 1, Len(leases) - 1)
              /\ bookingConflicts' = SubSeq(bookingConflicts, 1, Len(bookingConflicts) - 1)
              /\ Reply(p, CreateFailed)
  /\ UNCHANGED <<catalog, env, now, served, invoiceSeq, invoices, rentalAgreements,
                 paymentTransactions, payment, lastCheck>>

\* db.insert(installments).values(installmentRecords): values([]) throws.
CreateInsertInstallments(p) ==
  /\ pc[p] = "create_insert_installments"
  /\ LET l == loc[p]
         recs == installmentRecords(l.bookingId, l.totalAmount, l.installmentCount,
                                    l.startDate)
     IN  IF Len(recs) > 0
         THEN /\ installments' = InsertInstallments(installments, recs)
              /\ Continue(p, "create_insert_invoices", l)
         ELSE /\ installments' = installments
              /\ Reply(p, CreateFailed)
  /\ UNCHANGED <<catalog, env, now, served, invoiceSeq, bookings, leases, bookingConflicts,
                 invoices, rentalAgreements, paymentTransactions, payment, lastCheck>>

CreateInsertInvoices(p) ==
  /\ pc[p] = "create_insert_invoices"
  /\ LET l == loc[p]
     IN  invoices' = InsertInvoices(invoices,
                       invoiceRecords(l.leaseId, l.totalAmount, l.installmentCount,
                                      l.startDate))
  /\ Continue(p, "create_contract", loc[p])
  /\ UNCHANGED <<catalog, env, now, served, invoiceSeq, bookings, leases, bookingConflicts,
                 installments, rentalAgreements, paymentTransactions, payment, lastCheck>>

\* Variant of the handler whose catch sets no placeholder: the reference
\* stays the empty string it was initialised with.
ContractUrlWithoutPlaceholder(generated, bookingId) ==
  IF generated THEN <<"generated", bookingId>> ELSE <<>>

\* generateRentalAgreementPDF succeeds or throws; either way a rental
\* agreement row is inserted, with the generated url or the placeholder.
ContractUrl(generated, bookingId) ==
  IF generated THEN <<"generated", bookingId>> ELSE <<"placeholder", bookingId>>

CreateContract(p) ==
  /\ pc[p] = "create_contract"
  /\ \E generated \in BOOLEAN :
       LET l == loc[p]
           url == ContractUrl(generated, l.bookingId)
       IN  /\ rentalAgreements' = Append(rentalAgreements,
                 RentalAgreementRow(Len(rentalAgreements) + 1, l.leaseId, url))
           /\ Continue(p, "create_confirm", [l EXCEPT !.contractPdfUrl = url])
  /\ UNCHANGED <<catalog, env, now, served, invoiceSeq, bookings, leases, bookingConflicts,
                 installments, invoices, paymentTransactions, payment, lastCheck>>

CreateConfirm(p) ==
  /\ pc[p] = "create_confirm"
  /\ LET l == loc[p]
     IN  bookings' = UpdateWhere(bookings,
                                 LAMBDA r : r.id = l.bookingId,
                                 LAMBDA r : ConfirmBookingSet(r, l.contractPdfUrl))
  /\ Reply(p, Response(201, "Booking created successfully"))
  /\ UNCHANGED <<catalog, env, now, served, invoiceSeq, leases, bookingConflicts, installments,
                 invoices, rentalAgreements, paymentTransactions, payment, lastCheck>>

CreateStep(p, I) ==
  \/ CreateBegin(p, I)
  \/ CreateInsertBooking(p)
  \/ CreateInsertLease(p)
  \/ CreateInsertConflict(p)
  \/ CreateInsertInstallments(p)
  \/ CreateInsertInvoices(p)
  \/ CreateContract(p)
  \/ CreateConfirm(p)

\* POST /check-availability: one select, answered at once.
CheckAvailability(I) ==
  /\ served < MaxRequests
  /\ served' = served + 1
  /\ \E propertyId \in I.properties, startDate \in I.startDates, endDate \in I.endDates :
       lastCheck' = Some([propertyId |-> propertyId,
                          startDate |-> startDate,
                          endDate |-> endDate,
                          data |-> checkAvailability(propertyId, startDate, endDate)])
  /\ UNCHANGED <<catalog, env, now, invoiceSeq, store, pc, loc, resp>>

InitEmpty ==
  /\ InitRequests
  /\ env = [xenditKey |-> TRUE, webhookToken |-> TRUE]
  /\ bookings = <<>>
  /\ leases = <<>>
  /\ bookingConflicts = <<>>
  /\ installments = <<>>
  /\ invoices = <<>>
  /\ rentalAgreements = <<>>
  /\ paymentTransactions = <<>>
  /\ payment = <<>>

Date(y, m, d) == [y |-> y, m |-> m, d |-> d]

OthersIdle(p) == \A q \in Procs \ {p} : pc[q] = "idle"

\* Concurrent createBooking requests.
BookingInputs ==
  [users |-> {"u1", NoUser},
   properties |-> {"P1", "P0"},
   startDates |-> {Date(2025, 0, 1), Date(2025, 0, 10)},
   endDates |-> {Date(2025, 0, 10), Date(2025, 0, 20)},
   totals |-> {120000},
   paymentTypes |-> {"CASH", "CRYPTO"},
   counts |-> {2}]

NextBooking ==
  \E p \in Procs : CreateStep(p, BookingInputs)

SpecBooking == InitEmpty /\ [][NextBooking]_vars

\* createBooking and checkAvailability, one request at a time.
AvailabilityInputs ==
  [users |-> {"u1"},
   properties |-> {"P1", "P2"},
   startDates |-> {Date(2025, 0, 1), Date(2025, 0, 11)},
   endDates |-> {Date(2025, 0, 10), Date(2025, 0, 11)},
   totals |-> {120000},
   paymentTypes |-> {"CASH"},
   counts |-> {1}]

NextAvailability ==
  \/ \E p \in Procs : OthersIdle(p) /\ CreateStep(p, AvailabilityInputs)
  \/ (\A p \in Procs : pc[p] = "idle") /\ CheckAvailability(AvailabilityInputs)

SpecAvailability == InitEmpty /\ [][NextAvailability]_vars

\* createBooking over totals, counts and start dates that exercise the
\* division, the decimal cast and setMonth's overflow.
ScheduleInputs ==
  [users |-> {"u1"},
   properties |-> {"P1"},
   startDates |-> {Date(2025, 2, 1), Date(2025, 0, 31), Date(2024, 0, 31),
                   Date(2025, 9, 31), Date(2025, 11, 15)},
   endDates |-> {Date(2026, 11, 31)},
   totals |-> {120000, 100000, 10002, 10},
   paymentTypes |-> {"CASH", "ONLINE"},
   counts |-> 1..MaxCount]

NextSchedule == \E p \in Procs : OthersIdle(p) /\ CreateStep(p, ScheduleInputs)

SpecSchedule == InitEmpty /\ [][NextSchedule]_vars

\* createBooking with installment counts around zero, one request at a time.
CountInputs ==
  [users |-> {"u1"},
   properties |-> {"P1"},
   startDates |-> {Date(2025, 0, 1), Date(2025, 2, 1)},
   endDates |-> {Date(2025, 0, 31), Date(2025, 2, 31)},
   totals |-> {120000},
   paymentTypes |-> {"CASH"},
   counts |-> {-1, 0, 1}]

NextCounts == \E p \in Procs : OthersIdle(p) /\ CreateStep(p, CountInputs)

SpecCounts == InitEmpty /\ [][NextCounts]_vars

(***************************************************************************)
(* BookingsController: updateBookingStatus and cancelBooking. Its          *)
(* "bookings" are the rows of table leases.                                *)
(***************************************************************************)
\* The callers: req.user after the auth middleware, one of them an ADMIN.
Admins == {"admin"}

\* leaseStatusEnum
LeaseStatus == {"PENDING", "APPROVED", "REJECTED", "ACTIVE", "COMPLETED"}

\* body('status'): the handler never reads the validation result, so any
\* value reaches the update.
StatusInputs == {"PENDING", "CONFIRMED", "ACTIVE", "CANCELLED", "COMPLETED"}

UnknownLeaseId == Id("lease", 0)

LeaseIdInputs == {leases[k].id : k \in DOMAIN leases} \cup {UnknownLeaseId}

UpdateStatusDecision(userId, id, status) ==
  LET existingBooking == SelectWhere(leases, LAMBDA r : r.id = id)
  IN  IF existingBooking = {}
      THEN [next |-> "idle", response |-> Response(404, "Booking not found")]
      ELSE IF (CHOOSE r \in existingBooking : TRUE).tenantId # userId /\ userId \notin Admins
      THEN [next |-> "idle",
            response |-> Response(403, "Access denied. You can only update your own bookings.")]
      ELSE [next |-> "status_update",
            locals |-> [kind |-> "status", id |-> id, status |-> status]]

UpdateStatusBegin(p) ==
  /\ Accept(p)
  /\ UNCHANGED <<catalog, env, now, invoiceSeq, store, lastCheck>>
  /\ \E userId \in Users \cup Admins, id \in LeaseIdInputs, status \in StatusInputs :
       Decide(p, UpdateStatusDecision(userId, id, status))

\* .set({status, notes, updatedAt})
UpdateStatusSet(row, status) == [row EXCEPT !.status = status]

\* db.update(leases).set({status, ...}): a status outside LeaseStatus is
\* refused by the column's enum and the catch answers 500.
UpdateStatusWrite(p) ==
  /\ pc[p] = "status_update"
  /\ LET l == loc[p]
     IN  IF l.status \in LeaseStatus
         THEN /\ leases' = UpdateWhere(leases,
                                       LAMBDA r : r.id = l.id,
                                       LAMBDA r : UpdateStatusSet(r, l.status))
              /\ Reply(p, Response(200, "Booking updated successfully"))
         ELSE /\ leases' = leases
              /\ Reply(p, Response(500, "Failed to update booking"))
  /\ UNCHANGED <<catalog, env, now, served, invoiceSeq, bookings, bookingConflicts, installments,
                 invoices, rentalAgreements, paymentTransactions, payment, lastCheck>>

\* existingBooking.userId: a lease row has no such column, so the comparison
\* with req.user.id is between undefined and an id.
CancelOwner(existingBooking) == Null

CancelDecision(userId, id) ==
  LET existingBooking == SelectWhere(leases, LAMBDA r : r.id = id)
  IN  IF existingBooking = {}
      THEN [next |-> "idle", response |-> Response(404, "Booking not found")]
      ELSE IF CancelOwner(CHOOSE r \in existingBooking : TRUE) # Some(userId)
                /\ userId \notin Admins
      THEN [next |-> "idle",
            response |-> Response(403, "Access denied. You can only cancel your own leases.")]
      ELSE IF (CHOOSE r \in existingBooking : TRUE).status \in {"CANCELLED", "COMPLETED"}
      THEN [next |-> "idle", response |-> Response(400, "Booking cannot be cancelled")]
      ELSE [next |-> "cancel_update", locals |-> [kind |-> "cancel", id |-> id]]

CancelBegin(p) ==
  /\ Accept(p)
  /\ UNCHANGED <<catalog, env, now, invoiceSeq, store, lastCheck>>
  /\ \E userId \in Users \cup Admins, id \in LeaseIdInputs :
       Decide(p, CancelDecision(userId, id))

\* db.update(bookings).set({status: 'CANCELLED'}).where(eq(leases.id, id)):
\* the condition names a column of another table. The statement is refused
\* (500), or, read as a condition on the updated table's id, matches no
\* booking, a lease id being no booking id (200). No row changes.
CancelWrite(p) ==
  /\ pc[p] = "cancel_update"
  /\ \/ Reply(p, Response(500, "Failed to cancel booking"))
     \/ Reply(p, Response(200, "Booking cancelled successfully"))
  /\ UNCHANGED <<catalog, env, now, served, invoiceSeq, store, lastCheck>>

\* createBooking, updateBookingStatus and cancelBooking, one request at a
\* time.
LifecycleInputs ==
  [users |-> {"u1"},
   properties |-> {"P1"},
   startDates |-> {Date(2025, 0, 1)},
   endDates |-> {Date(2025, 0, 10)},
   totals |-> {120000},
   paymentTypes |-> {"CASH"},
   counts |-> {1}]

LifecycleStep(p) ==
  \/ CreateStep(p, LifecycleInputs)
  \/ UpdateStatusBegin(p)
  \/ UpdateStatusWrite(p)
  \/ CancelBegin(p)
  \/ CancelWrite(p)

NextLifecycle == \E p \in Procs : OthersIdle(p) /\ LifecycleStep(p)

SpecLifecycle == InitEmpty /\ [][NextLifecycle]_vars

(***************************************************************************)
(* The mobile payment flow on table payment: createBookingPayment and      *)
(* cancelPayment of MobilePaymentController, and the gateway's callback    *)
(* PaymentsController.invoiceCallback.                                     *)
(***************************************************************************)
PaymentStatus == {"PENDING", "COMPLETED", "FAILED", "REFUNDED"}

\* A row of payment. Its paidAt and updatedAt columns are written and never
\* compared by any handler, so the model leaves them out.
PaymentRow(n, externalId, leaseId, amount, xenditInvoiceId) ==
  [id |-> Id("payment", n),
   externalId |-> externalId,
   leaseId |-> leaseId,
   amount |-> Decimal2(Quotient(amount, 1)),
   paymentMethod |-> "BANK_TRANSFER",
   xenditInvoiceId |-> xenditInvoiceId,
   status |-> "PENDING"]

\* `lease_${leaseId}_${Date.now()}`
LeaseExternalId(leaseId, t) == <<"lease", leaseId[2], t>>

UnknownPaymentId == Id("payment", 0)

PaymentIdInputs == {payment[k].id : k \in DOMAIN payment} \cup {UnknownPaymentId}

\* createBookingPayment up to the gateway call: the caller's identity and the
\* lookup of the lease by id and tenant.
CreatePaymentDecision(userId, leaseId, amount) ==
  IF userId = NoUser
  THEN [next |-> "idle", response |-> Response(401, "User not authenticated")]
  ELSE IF SelectWhere(leases, LAMBDA r : r.id = leaseId /\ r.tenantId = userId) = {}
  THEN [next |-> "idle", response |-> Response(404, "Lease not found or unauthorized")]
  ELSE [next |-> "mobile_invoice",
        locals |-> [kind |-> "mobile_create",
                    leaseId |-> leaseId,
                    amount |-> amount,
                    externalId |-> LeaseExternalId(leaseId, now),
                    invoiceId |-> Null]]

CreatePaymentBegin(p) ==
  /\ Accept(p)
  /\ UNCHANGED <<catalog, env, now, invoiceSeq, store, lastCheck>>
  /\ \E userId \in Users \cup {NoUser}, leaseId \in LeaseIdInputs, amount \in {40000} :
       Decide(p, CreatePaymentDecision(userId, leaseId, amount))

\* xenditClient.Invoice.createInvoice: the gateway issues an invoice or the
\* call throws.
CreatePaymentInvoice(p) ==
  /\ pc[p] = "mobile_invoice"
  /\ \/ /\ invoiceSeq' = invoiceSeq + 1
        /\ Continue(p, "mobile_insert",
                    [loc[p] EXCEPT !.invoiceId = XenditInvoiceId(invoiceSeq + 1)])
     \/ /\ invoiceSeq' = invoiceSeq
        /\ Reply(p, Response(500, "Failed to create payment"))
  /\ UNCHANGED <<catalog, env, now, served, store, lastCheck>>

\* db.insert(payment): externalId is a unique column, so a second record of
\* the same lease in the same tick of the clock is refused.
CreatePaymentInsert(p) ==
  /\ pc[p] = "mobile_insert"
  /\ LET l == loc[p]
     IN  IF \E k \in DOMAIN payment : payment[k].externalId = l.externalId
         THEN /\ payment' = payment
              /\ Reply(p, Response(500, "Failed to create payment"))
         ELSE /\ payment' = Append(payment,
                              PaymentRow(Len(payment) + 1, l.externalId, l.leaseId,
                                         l.amount, l.invoiceId))
              /\ Reply(p, Response(201, "Payment invoice created successfully"))
  /\ UNCHANGED <<catalog, env, now, served, invoiceSeq, bookings, leases, bookingConflicts,
                 installments, invoices, rentalAgreements, paymentTransactions,
                 lastCheck>>

\* The rows of payment an open transaction has updated and not yet committed:
\* a statement that writes one of them waits for the transaction to end.
LockedPayments(p) ==
  UNION {loc[q].updated : q \in {r \in Procs \ {p} : pc[r] = "callback_lease"}}

\* cancelPayment up to the gateway call: the payment joined with its lease,
\* of the caller, and pending.
CancelPaymentDecision(userId, paymentId) ==
  LET paymentRecord ==
        {k \in DOMAIN payment :
           /\ payment[k].id = paymentId
           /\ \E j \in DOMAIN leases :
                leases[j].id = payment[k].leaseId /\ leases[j].tenantId = userId
           /\ payment[k].status = "PENDING"}
  IN  IF paymentRecord = {}
      THEN [next |-> "idle",
            response |-> Response(404, "Payment not found or cannot be cancelled")]
      ELSE [next |-> "mobile_expire",
            locals |-> [kind |-> "mobile_cancel", paymentId |-> paymentId]]

CancelPaymentBegin(p) ==
  /\ Accept(p)
  /\ UNCHANGED <<catalog, env, now, invoiceSeq, store, lastCheck>>
  /\ \E userId \in Users, paymentId \in PaymentIdInputs :
       Decide(p, CancelPaymentDecision(userId, paymentId))

\* xenditClient.Invoice.expireInvoice: its failure is logged and ignored.
CancelPaymentExpire(p) ==
  /\ pc[p] = "mobile_expire"
  /\ Continue(p, "mobile_cancel_update", loc[p])
  /\ UNCHANGED <<catalog, env, now, served, invoiceSeq, store, lastCheck>>

\* .set({status: 'FAILED', updatedAt: new Date()})
CancelPaymentSet(row) == [row EXCEPT !.status = "FAILED"]

\* Variant of the handler that also resets the installments of the lease's
\* booking.
CancelPaymentUpdateResettingInstallments(p) ==
  /\ pc[p] = "mobile_cancel_update"
  /\ \A k \in DOMAIN payment :
       payment[k].id = loc[p].paymentId => k \notin LockedPayments(p)
  /\ payment' = UpdateWhere(payment, LAMBDA r : r.id = loc[p].paymentId, CancelPaymentSet)
  /\ installments' = UpdateWhere(installments, LAMBDA r : TRUE,
                                 LAMBDA r : PayOnlineSet(r, Null, Null))
  /\ Reply(p, Response(200, "Payment cancelled successfully"))
  /\ UNCHANGED <<catalog, env, now, served, invoiceSeq, bookings, leases, bookingConflicts,
                 invoices, rentalAgreements, paymentTransactions, lastCheck>>

\* db.update(payment).set(...).where(eq(payment.id, paymentId))
CancelPaymentUpdate(p) ==
  /\ pc[p] = "mobile_cancel_update"
  /\ \A k \in DOMAIN payment :
       payment[k].id = loc[p].paymentId => k \notin LockedPayments(p)
  /\ payment' = UpdateWhere(payment, LAMBDA r : r.id = loc[p].paymentId, CancelPaymentSet)
  /\ Reply(p, Response(200, "Payment cancelled successfully"))
  /\ UNCHANGED <<catalog, env, now, served, invoiceSeq, bookings, leases, bookingConflicts,
                 installments, invoices, rentalAgreements, paymentTransactions,
                 lastCheck>>

\* Whether a value of the callback's external_id can be compared with the
\* uuid columns payment.leaseId and leases.id; the statement is refused
\* otherwise.
IsLeaseUuid(external_id) == Len(external_id) = 2 /\ external_id[1] = "lease"

CallbackStatusInputs == {"COMPLETED", "SETTLED", "EXPIRED", "PAID"}

CallbackExternalIdInputs ==
  LeaseIdInputs \cup {LeaseExternalId(leases[k].id, 0) : k \in DOMAIN leases}

\* invoiceCallback up to its first write: the callback token and the branch
\* on the status.
CallbackDecision(tokenMatches, status, external_id) ==
  IF ~tokenMatches
  THEN [next |-> "idle", response |-> Response(401, "Unauthorized")]
  ELSE IF status \in {"COMPLETED", "SETTLED"}
  THEN [next |-> "callback_payment",
        locals |-> [kind |-> "callback", status |-> status,
                    external_id |-> external_id, updated |-> {}]]
  ELSE IF status = "EXPIRED"
  THEN [next |-> "callback_expired",
        locals |-> [kind |-> "callback", status |-> status,
                    external_id |-> external_id, updated |-> {}]]
  ELSE [next |-> "idle", response |-> Response(200, "Callback received")]

CallbackBegin(p) ==
  /\ Accept(p)
  /\ UNCHANGED <<catalog, env, now, invoiceSeq, store, lastCheck>>
  /\ \E tokenMatches \in BOOLEAN, status \in CallbackStatusInputs,
        external_id \in CallbackExternalIdInputs :
       Decide(p, CallbackDecision(tokenMatches, status, external_id))

\* .set({status: 'COMPLETED', paidAt: new Date()})
CallbackPaymentSet(row) == [row EXCEPT !.status = "COMPLETED"]

\* Variant of the handler that runs its first update outside the
\* transaction, on the store itself.
CallbackPaymentWriteAutocommit(p) ==
  /\ pc[p] = "callback_payment"
  /\ LET l == loc[p]
         matched == {k \in DOMAIN payment : payment[k].leaseId = l.external_id}
     IN  IF ~IsLeaseUuid(l.external_id)
         THEN /\ payment' = payment
              /\ Reply(p, Response(500, "Error retrieving payment"))
         ELSE /\ matched \cap LockedPayments(p) = {}
              /\ payment' = UpdateWhere(payment, LAMBDA r : r.leaseId = l.external_id,
                                        CallbackPaymentSet)
              /\ Continue(p, "callback_lease", [l EXCEPT !.updated = matched])
  /\ UNCHANGED <<catalog, env, now, served, invoiceSeq, bookings, leases, bookingConflicts,
                 installments, invoices, rentalAgreements, paymentTransactions,
                 lastCheck>>

\* The first statement of db.transaction: tx.update(payment) where leaseId is
\* external_id. The rows it updates stay locked, and their new values
\* invisible, until the transaction ends.
CallbackPaymentWrite(p) ==
  /\ pc[p] = "callback_payment"
  /\ LET l == loc[p]
         matched == {k \in DOMAIN payment : payment[k].leaseId = l.external_id}
     IN  IF ~IsLeaseUuid(l.external_id)
         THEN Reply(p, Response(500, "Error retrieving payment"))
         ELSE /\ matched \cap LockedPayments(p) = {}
              /\ Continue(p, "callback_lease", [l EXCEPT !.updated = matched])
  /\ UNCHANGED <<catalog, env, now, served, invoiceSeq, store, lastCheck>>

\* The second statement, tx.update(leases).set({status, ...}), and the end of
\* the transaction: the commit of both updates, or, the status being no
\* LeaseStatus, the rollback and the catch's response.
CallbackLeaseWrite(p) ==
  /\ pc[p] = "callback_lease"
  /\ LET l == loc[p]
     IN  IF l.status \in LeaseStatus
         THEN /\ payment' = [k \in DOMAIN payment |->
                               IF k \in l.updated THEN CallbackPaymentSet(payment[k])
                               ELSE payment[k]]
              /\ leases' = UpdateWhere(leases, LAMBDA r : r.id = l.external_id,
                                       LAMBDA r : UpdateStatusSet(r, l.status))
              /\ Reply(p, Response(200, "Callback received"))
         ELSE /\ UNCHANGED <<payment, leases>>
              /\ Reply(p, Response(500, "Error retrieving payment"))
  /\ UNCHANGED <<catalog, env, now, served, invoiceSeq, bookings, bookingConflicts,
                 installments, invoices, rentalAgreements, paymentTransactions,
                 lastCheck>>

\* db.update(payment).set({status: 'FAILED', ...}) where leaseId is
\* external_id, outside any transaction.
CallbackExpired(p) ==
  /\ pc[p] = "callback_expired"
  /\ LET l == loc[p]
     IN  IF ~IsLeaseUuid(l.external_id)
         THEN /\ payment' = payment
              /\ Reply(p, Response(500, "Error retrieving payment"))
         ELSE /\ {k \in DOMAIN payment : payment[k].leaseId = l.external_id}
                   \cap LockedPayments(p) = {}
              /\ payment' = UpdateWhere(payment, LAMBDA r : r.leaseId = l.external_id,
                                        CancelPaymentSet)
              /\ Reply(p, Response(200, "Callback received"))
  /\ UNCHANGED <<catalog, env, now, served, invoiceSeq, bookings, leases, bookingConflicts,
                 installments, invoices, rentalAgreements, paymentTransactions,
                 lastCheck>>

\* The store after createBooking and one online payInstallment request of
\* tenant u1: the installment carries the gateway's ids and is UNPAID, its
\* transaction is PENDING, and table payment is empty.
InitMobile ==
  /\ now = 0
  /\ served = 0
  /\ invoiceSeq = 1
  /\ pc = [p \in Procs |-> "idle"]
  /\ loc = [p \in Procs |-> Null]
  /\ resp = Response(0, "")
  /\ lastCheck = Null
  /\ InitCatalog
  /\ env = [xenditKey |-> TRUE, webhookToken |-> TRUE]
  /\ bookings = <<ConfirmBookingSet(
                     BookingRow(1, "P1", "u1", "landlord", SeedStart, SeedEnd,
                                40000, "ONLINE", 1),
                     "contract")>>
  /\ leases = <<LeaseRow(1, "P1", "u1", "landlord", SeedStart, SeedEnd,
                         installmentAmount(40000, 1), Id("booking", 1))>>
  /\ bookingConflicts = <<ConflictRow(1, "P1", SeedStart, SeedEnd, Id("booking", 1))>>
  /\ installments =
       UpdateWhere(InsertInstallments(<<>>, installmentRecords(Id("booking", 1), 40000, 1,
                                                               SeedStart)),
                   LAMBDA r : TRUE,
                   LAMBDA r : PayOnlineSet(r, ExternalId(r.id, 0), XenditInvoiceId(1)))
  /\ invoices = InsertInvoices(<<>>, invoiceRecords(Id("lease", 1), 40000, 1, SeedStart))
  /\ rentalAgreements = <<RentalAgreementRow(1, Id("lease", 1), "contract")>>
  /\ paymentTransactions =
       <<TransactionRow(1, Id("installment", 1), Id("booking", 1), 40000,
                        "BANK_TRANSFER", "ONLINE", XenditInvoiceId(1),
                        ExternalId(Id("installment", 1), 0), "PENDING")>>
  /\ payment = <<>>

MobileStep(p) ==
  \/ CreatePaymentBegin(p)
  \/ CreatePaymentInvoice(p)
  \/ CreatePaymentInsert(p)
  \/ CancelPaymentBegin(p)
  \/ CancelPaymentExpire(p)
  \/ CancelPaymentUpdate(p)
  \/ CallbackBegin(p)
  \/ CallbackPaymentWrite(p)
  \/ CallbackLeaseWrite(p)
  \/ CallbackExpired(p)

NextMobile == Tick \/ \E p \in Procs : MobileStep(p)

SpecMobile == InitMobile /\ [][NextMobile]_vars

(***************************************************************************)
(* The endpoints that report overdue installments: getUnpaidInstallments   *)
(* of BookingController, getBookingById and getUserBookings of             *)
(* BookingsController.                                                     *)
(***************************************************************************)
\* new Date(): the calendar date of the clock, which starts at the seeded
\* booking's start and advances a month with every tick.
ClockDate(t) == SetMonth(SeedStart, SeedStart.m + t)

\* The overdue part of getUnpaidInstallments: the UNPAID installments of
\* the caller's bookings whose due date is before now.
unpaidOverdue(userId, t) ==
  {r \in SelectWhere(installments,
                     LAMBDA r : BookingOf(r).tenantId = userId /\ r.status = "UNPAID") :
     ~DateLE(ClockDate(t), r.dueDate)}

\* installmentsSummary.overdue of getBookingById and overdueInstallments of
\* getUserBookings: the installments of the booking stored as OVERDUE.
storedOverdue(bookingId) ==
  SelectWhere(installments, LAMBDA r : r.bookingId = bookingId /\ r.status = "OVERDUE")

ReportResponse(endpoint, overdue) ==
  [code |-> 200, error |-> "", endpoint |-> endpoint, overdue |-> overdue]

GetUnpaidInstallments ==
  /\ served < MaxRequests
  /\ served' = served + 1
  /\ \E userId \in Users :
       resp' = ReportResponse("getUnpaidInstallments",
                              Cardinality(unpaidOverdue(userId, now)))
  /\ UNCHANGED <<catalog, env, now, invoiceSeq, store, pc, loc, lastCheck>>

GetBookingById ==
  /\ served < MaxRequests
  /\ served' = served + 1
  /\ \E k \in DOMAIN bookings :
       resp' = ReportResponse("getBookingById",
                              Cardinality(storedOverdue(bookings[k].id)))
  /\ UNCHANGED <<catalog, env, now, invoiceSeq, store, pc, loc, lastCheck>>

GetUserBookings ==
  /\ served < MaxRequests
  /\ served' = served + 1
  /\ \E userId \in Users :
       resp' = ReportResponse("getUserBookings",
                              [k \in {j \in DOMAIN bookings : bookings[j].tenantId = userId}
                                 |-> Cardinality(storedOverdue(bookings[k].id))])
  /\ UNCHANGED <<catalog, env, now, invoiceSeq, store, pc, loc, lastCheck>>

\* The store after one createBooking of tenant u1 with two installments, due
\* at the start and a month later, paid in cash.
InitReports ==
  /\ InitRequests
  /\ env = [xenditKey |-> TRUE, webhookToken |-> TRUE]
  /\ bookings = <<ConfirmBookingSet(
                     BookingRow(1, "P1", "u1", "landlord", SeedStart, SeedEnd,
                                40000, "CASH", 2),
                     "contract")>>
  /\ leases = <<LeaseRow(1, "P1", "u1", "landlord", SeedStart, SeedEnd,
                         installmentAmount(40000, 2), Id("booking", 1))>>
  /\ bookingConflicts = <<ConflictRow(1, "P1", SeedStart, SeedEnd, Id("booking", 1))>>
  /\ installments =
       InsertInstallments(<<>>, installmentRecords(Id("booking", 1), 40000, 2, SeedStart))
  /\ invoices = InsertInvoices(<<>>, invoiceRecords(Id("lease", 1), 40000, 2, SeedStart))
  /\ rentalAgreements = <<RentalAgreementRow(1, Id("lease", 1), "contract")>>
  /\ paymentTransactions = <<>>
  /\ payment = <<>>

NextReports ==
  \/ Tick
  \/ GetUnpaidInstallments
  \/ GetBookingById
  \/ GetUserBookings
  \/ \E p \in Procs : PayBegin(p) \/ PayCashUpdate(p) \/ PayCashInsert(p)

SpecReports == InitReports /\ [][NextReports]_vars

(***************************************************************************)
(* The catalogue endpoints behind the read cache: property types,          *)
(* properties and favourites.  Requests are handled one at a time.  The    *)
(* clock advances in steps longer than the cache's time to live of 30      *)
(* minutes, so an entry is served during the tick that stored it and has   *)
(* expired after the next one.                                              *)
(***************************************************************************)
TTL == 0

\* MemoryCache.get: null when the key is absent or its entry is older than
\* the time to live, the stored data otherwise.  (An expired entry is also
\* deleted; every caller stores the key again right after a miss.)
cacheGet(key) ==
  IF key \notin DOMAIN cache THEN Null
  ELSE IF now - cache[key].timestamp > TTL THEN Null
  ELSE Some(cache[key].data)

\* MemoryCache.set: the ttl some callers pass as a third argument is ignored.
cacheSet(key, data) ==
  [k \in DOMAIN cache \cup {key} |->
     IF k = key THEN [data |-> data, timestamp |-> now] ELSE cache[k]]

\* (req as any).user?.role || 'USER'
UserRole(userId) == IF userId = "admin" THEN "ADMIN" ELSE "USER"

CatalogResponse(code, endpoint, userId, data) ==
  [code |-> code, error |-> "", endpoint |-> endpoint, userId |-> userId, data |-> data]

\* GET /property-types with the default page, limit and no search.
GetAllPropertyTypes ==
  /\ served < MaxRequests
  /\ served' = served + 1
  /\ LET cacheKey == <<"property-types", 1, 20, "">>
         cachedData == cacheGet(cacheKey)
         response == [data |-> propertyTypes, total |-> Len(propertyTypes)]
     IN IF cachedData # Null
        THEN /\ resp' = CatalogResponse(200, "getAllPropertyTypes", NoUser, cachedData[1])
             /\ cache' = cache
        ELSE /\ cache' = cacheSet(cacheKey, response)
             /\ resp' = CatalogResponse(200, "getAllPropertyTypes", NoUser, response)
  /\ UNCHANGED <<env, now, invoiceSeq, store, pc, loc, lastCheck,
                 properties, propertyTypes, propertyFavorites>>

\* POST /property-types, open to administrators only.  randomUUID() is an id
\* not in use.
CreatePropertyType ==
  /\ served < MaxRequests
  /\ served' = served + 1
  /\ \E userId \in {"u1", "admin"}, name \in {"Villa", "Condo"} :
       IF UserRole(userId) # "ADMIN"
       THEN /\ resp' = CatalogResponse(403, "createPropertyType", userId, Null)
            /\ propertyTypes' = propertyTypes
       ELSE \E id \in {"T1", "T2"} \ {propertyTypes[k].id : k \in DOMAIN propertyTypes} :
              /\ propertyTypes' = Append(propertyTypes, [id |-> id, name |-> name])
              /\ resp' = CatalogResponse(201, "createPropertyType", userId, Null)
  /\ UNCHANGED <<env, now, invoiceSeq, store, pc, loc, lastCheck,
                 properties, propertyFavorites, cache>>

\* PUT /property-types/:id by an administrator.
UpdatePropertyType ==
  /\ served < MaxRequests
  /\ served' = served + 1
  /\ \E id \in {"T1", "T2"}, name \in {"Villa", "Condo"} :
       IF \E k \in DOMAIN propertyTypes : propertyTypes[k].id = id
       THEN /\ propertyTypes' =
                 [k \in DOMAIN propertyTypes |->
                    IF propertyTypes[k].id = id
                    THEN [propertyTypes[k] EXCEPT !.name = name]
                    ELSE propertyTypes[k]]
            /\ resp' = CatalogResponse(200, "updatePropertyType", "admin", Null)
       ELSE /\ propertyTypes' = propertyTypes
            /\ resp' = CatalogResponse(404, "updatePropertyType", "admin", Null)
  /\ UNCHANGED <<env, now, invoiceSeq, store, pc, loc, lastCheck,
                 properties, propertyFavorites, cache>>

\* DELETE /property-types/:id by an administrator.
DeletePropertyType ==
  /\ served < MaxRequests
  /\ served' = served + 1
  /\ \E id \in {"T1", "T2"} :
       IF \E k \in DOMAIN propertyTypes : propertyTypes[k].id = id
       THEN /\ propertyTypes' = SelectSeq(propertyTypes, LAMBDA r : r.id # id)
            /\ resp' = CatalogResponse(200, "deletePropertyType", "admin", Null)
       ELSE /\ propertyTypes' = propertyTypes
            /\ resp' = CatalogResponse(404, "deletePropertyType", "admin", Null)
  /\ UNCHANGED <<env, now, invoiceSeq, store, pc, loc, lastCheck,
                 properties, propertyFavorites, cache>>

\* favoriteCount of every listed property, and isFavorited for the caller:
\* false for every property when the caller is anonymous.
addFavoriteInfoToProperties(rows, userId) ==
  {[id |-> r.id,
    favoriteCount |-> Cardinality({f \in propertyFavorites : f[2] = r.id}),
    isFavorited |-> userId # NoUser /\ <<userId, r.id>> \in propertyFavorites] : r \in rows}

\* PropertiesService.getAllProperties without filters: only administrators
\* see properties that are not APPROVED.
getAllProperties(userId, userRole) ==
  LET rows == SelectWhere(properties,
                          LAMBDA r : userRole = "ADMIN" \/ r.status = "APPROVED")
  IN [properties |-> addFavoriteInfoToProperties(rows, userId),
      total |-> Cardinality(rows)]

\* GET /properties with the default page, limit and no filters.
GetAllProperties ==
  /\ served < MaxRequests
  /\ served' = served + 1
  /\ \E userId \in Users \cup {NoUser, "admin"} :
       LET userRole == UserRole(userId)
           cacheKey == <<"properties", 1, 10, "", userRole>>
           cachedData == cacheGet(cacheKey)
           result == getAllProperties(userId, userRole)
       IN IF cachedData # Null
          THEN /\ resp' = CatalogResponse(200, "getAllProperties", userId, cachedData[1])
               /\ cache' = cache
          ELSE /\ cache' = cacheSet(cacheKey, result)
               /\ resp' = CatalogResponse(200, "getAllProperties", userId, result)
  /\ UNCHANGED <<env, now, invoiceSeq, store, pc, loc, lastCheck,
                 properties, propertyTypes, propertyFavorites>>

\* POST /properties: the new property waits for review; the whole cache is
\* cleared.
CreateProperty ==
  /\ served < MaxRequests
  /\ served' = served + 1
  /\ \E userId \in {NoUser, "landlord1"} :
       IF userId = NoUser
       THEN /\ resp' = CatalogResponse(401, "createProperty", userId, Null)
            /\ UNCHANGED <<properties, cache>>
       ELSE \E id \in {"P3"} \ {properties[k].id : k \in DOMAIN properties} :
              /\ properties' = Append(properties, [id |-> id, ownerId |-> userId,
                                                   status |-> "PENDING_REVIEW"])
              /\ cache' = <<>>
              /\ resp' = CatalogResponse(201, "createProperty", userId, Null)
  /\ UNCHANGED <<env, now, invoiceSeq, store, pc, loc, lastCheck,
                 propertyTypes, propertyFavorites>>

\* DELETE /properties/:id by its owner or an administrator; the whole cache
\* is cleared.
DeleteProperty ==
  /\ served < MaxRequests
  /\ served' = served + 1
  /\ \E userId \in {"u1", "landlord1"}, propertyId \in {"P1", "P3"} :
       LET existing == SelectWhere(properties, LAMBDA r : r.id = propertyId)
       IN IF existing = {}
          THEN /\ resp' = CatalogResponse(404, "deleteProperty", userId, Null)
               /\ UNCHANGED <<properties, cache>>
          ELSE IF \E r \in existing : UserRole(userId) # "ADMIN" /\ r.ownerId # userId
          THEN /\ resp' = CatalogResponse(403, "deleteProperty", userId, Null)
               /\ UNCHANGED <<properties, cache>>
          ELSE /\ properties' = SelectSeq(properties, LAMBDA r : r.id # propertyId)
               /\ cache' = <<>>
               /\ resp' = CatalogResponse(200, "deleteProperty", userId, Null)
  /\ UNCHANGED <<env, now, invoiceSeq, store, pc, loc, lastCheck,
                 propertyTypes, propertyFavorites>>

\* POST /properties/:propertyId/favorites
AddToFavorites ==
  /\ served < MaxRequests
  /\ served' = served + 1
  /\ \E userId \in Users, propertyId \in {"P1", "P3"} :
       IF SelectWhere(properties, LAMBDA r : r.id = propertyId) = {}
       THEN /\ resp' = CatalogResponse(404, "addToFavorites", userId, Null)
            /\ propertyFavorites' = propertyFavorites
       ELSE IF <<userId, propertyId>> \in propertyFavorites
       THEN /\ resp' = CatalogResponse(400, "addToFavorites", userId, Null)
            /\ propertyFavorites' = propertyFavorites
       ELSE /\ propertyFavorites' = propertyFavorites \cup {<<userId, propertyId>>}
            /\ resp' = CatalogResponse(200, "addToFavorites", userId, Null)
  /\ UNCHANGED <<env, now, invoiceSeq, store, pc, loc, lastCheck,
                 properties, propertyTypes, cache>>

\* DELETE /properties/:propertyId/favorites
RemoveFromFavorites ==
  /\ served < MaxRequests
  /\ served' = served + 1
  /\ \E userId \in Users, propertyId \in {"P1", "P3"} :
       /\ propertyFavorites' = propertyFavorites \ {<<userId, propertyId>>}
       /\ resp' = CatalogResponse(200, "removeFromFavorites", userId, Null)
  /\ UNCHANGED <<env, now, invoiceSeq, store, pc, loc, lastCheck,
                 properties, propertyTypes, cache>>

NextCatalog ==
  \/ Tick
  \/ GetAllPropertyTypes
  \/ CreatePropertyType
  \/ UpdatePropertyType
  \/ DeletePropertyType
  \/ GetAllProperties
  \/ CreateProperty
  \/ DeleteProperty
  \/ AddToFavorites
  \/ RemoveFromFavorites

SpecCatalog == InitEmpty /\ [][NextCatalog]_vars

(***************************************************************************)
(* Properties of the payment state machine.                                *)
(***************************************************************************)
CompletedTransactions(installmentId) ==
  {k \in DOMAIN paymentTransactions :
     /\ paymentTransactions[k].installmentId = installmentId
     /\ paymentTransactions[k].status = "COMPLETED"}

TransactionsOf(installmentId) ==
  {k \in DOMAIN paymentTransactions :
     paymentTransactions[k].installmentId = installmentId}

\* C1: in every reachable state, every installment whose status is PAID has
\* paidAmount equal to its own amount.
C1_PaidAmountIsAmount ==
  \A k \in DOMAIN installments :
    installments[k].status = "PAID" =>
      installments[k].paidAmount = Some(installments[k].amount)

\* C2: PAID is terminal: no step of any request, under any interleaving,
\* takes an installment whose stored status is PAID to another status.
C2_PaidIsTerminal ==
  [][\A k \in DOMAIN installments :
       installments[k].status = "PAID" => installments'[k].status = "PAID"]_vars

\* A request that read the installment while it was UNPAID has written to it
\* after another request set it PAID.
C2_Witness ==
  \E p \in Procs, k \in DOMAIN installments :
    /\ pc[p] = "pay_online_insert"
    /\ installments[k].id = loc[p].installmentId
    /\ installments[k].xenditExternalId = loc[p].externalId
    /\ installments[k].status = "PAID"

\* C3: once an installment is PAID, no later step changes its paidAmount,
\* paidAt, paymentMethod or gateway invoice / external ids.
C3_PaidIsImmutable ==
  [][\A k \in DOMAIN installments :
       installments[k].status = "PAID" =>
         /\ installments'[k].paidAmount = installments[k].paidAmount
         /\ installments'[k].paidAt = installments[k].paidAt
         /\ installments'[k].paymentMethod = installments[k].paymentMethod
         /\ installments'[k].xenditInvoiceId = installments[k].xenditInvoiceId
         /\ installments'[k].xenditExternalId = installments[k].xenditExternalId]_vars

\* C4: for every installment, at most one of its payment transactions has
\* status COMPLETED, in every reachable state.
C4_AtMostOneCompleted ==
  \A k \in DOMAIN installments :
    Cardinality(CompletedTransactions(installments[k].id)) <= 1

AlreadyPaidResponse == Response(400, "Installment is already paid")

\* A PAID installment of a cash booking: every further payInstallment of its
\* tenant, whatever the method, is answered with the already-paid error.
C5_SecondCallIsRejected ==
  \A k \in DOMAIN installments :
    (installments[k].status = "PAID" /\ BookingOf(installments[k]).paymentType = "CASH") =>
      \A paymentMethod \in {"", "CASH", "BANK_TRANSFER"} :
        PayDecision(BookingOf(installments[k]).tenantId, installments[k].id, paymentMethod)
          = [next |-> "idle", response |-> AlreadyPaidResponse]

\* The step that answers with the already-paid error writes nothing; the step
\* that ends a cash payment answers 200 and leaves the installment PAID with
\* its full amount and exactly one payment transaction.
C5_CallEffects ==
  /\ (served' = served + 1 /\ resp' = AlreadyPaidResponse /\ pc' = pc) =>
       UNCHANGED store
  /\ \A p \in Procs :
       (pc[p] = "pay_cash_insert" /\ pc'[p] = "idle") =>
         /\ resp'.code = 200
         /\ \A k \in DOMAIN installments' :
              installments'[k].id = loc[p].installmentId =>
                /\ installments'[k].status = "PAID"
                /\ installments'[k].paidAmount = Some(installments'[k].amount)
         /\ Len(paymentTransactions') = Len(paymentTransactions) + 1
         /\ Cardinality({j \in DOMAIN paymentTransactions' :
                           paymentTransactions'[j].installmentId = loc[p].installmentId}) = 1

\* C5: payInstallment called twice in sequence for an installment of a cash
\* booking: the first call sets it PAID and succeeds, the second fails with
\* the already-paid error, creates no payment transaction and changes no
\* installment field.
C5_CashPaidTwice == [](C5_SecondCallIsRejected) /\ [][C5_CallEffects]_vars

\* The second call has been answered: the installment is PAID, with one
\* transaction, and the last response is the already-paid error.
C5_Witness ==
  /\ resp = AlreadyPaidResponse
  /\ bookings[1].paymentType = "CASH"
  /\ installments[1].status = "PAID"
  /\ Len(paymentTransactions) = 1
  /\ \A p \in Procs : pc[p] = "idle"

(***************************************************************************)
(* Properties of availability and booking creation.                        *)
(***************************************************************************)
\* A calendar date's place in the order of days.
Ordinal(date) == date.y * 372 + date.m * 31 + date.d

Overlaps(record, startDate, endDate) ==
  /\ Ordinal(record.endDate) >= Ordinal(startDate)
  /\ Ordinal(record.startDate) <= Ordinal(endDate)

ConflictRecords == {bookingConflicts[k] : k \in DOMAIN bookingConflicts}

\* C6: checkAvailability(propertyId, s2, e2) answers available = false
\* exactly when a stored conflict record of that property has a range
\* [s1, e1] with e1 >= s2 and s1 <= e2, and its conflicts are exactly those
\* records; records of other properties and adjacent ranges do not count.
C6_AvailabilityIsOverlap ==
  [][lastCheck' # lastCheck =>
       LET q == lastCheck'[1]
           overlapping == {r \in ConflictRecords :
                             /\ r.propertyId = q.propertyId
                             /\ Overlaps(r, q.startDate, q.endDate)}
       IN  /\ q.data.conflicts = overlapping
           /\ q.data.available = (overlapping = {})]_vars

\* A check answered "unavailable" while the property also has a record that
\* touches no day of the query and another property has a record that does.
C6_Witness ==
  /\ lastCheck # Null
  /\ ~lastCheck[1].data.available
  /\ \E r \in ConflictRecords :
       /\ r.propertyId = lastCheck[1].propertyId
       /\ r \notin lastCheck[1].data.conflicts

BookingById(bookingId) == bookings[bookingId[2]]

\* C7: createBooking re-checks availability and inserts its conflict record
\* in separate steps, so a request that has passed the re-check always
\* succeeds: it leaves its conflict record and a confirmed booking, whatever
\* other requests have inserted in between. Two concurrent requests for
\* overlapping ranges of one property therefore both succeed.
C7_PassedCheckSucceeds ==
  [][\A p \in Procs :
       (pc[p] # "idle" /\ pc'[p] = "idle") =>
         /\ resp'.code = 201
         /\ bookings'[loc[p].bookingId[2]].status = "CONFIRMED"
         /\ \E k \in DOMAIN bookingConflicts' :
              /\ bookingConflicts'[k].bookingId = loc[p].bookingId
              /\ bookingConflicts'[k].propertyId = loc[p].propertyId
              /\ bookingConflicts'[k].startDate = loc[p].startDate
              /\ bookingConflicts'[k].endDate = loc[p].endDate]_vars

\* Two bookings of one property, both confirmed, whose conflict records
\* overlap.
C7_Witness ==
  \E i, j \in DOMAIN bookingConflicts :
    /\ i # j
    /\ bookingConflicts[i].propertyId = bookingConflicts[j].propertyId
    /\ bookingConflicts[i].bookingId # bookingConflicts[j].bookingId
    /\ Overlaps(bookingConflicts[i], bookingConflicts[j].startDate,
                bookingConflicts[j].endDate)
    /\ BookingById(bookingConflicts[i].bookingId).status = "CONFIRMED"
    /\ BookingById(bookingConflicts[j].bookingId).status = "CONFIRMED"
    /\ \A p \in Procs : pc[p] = "idle"

PropertyExists(propertyId) == \E k \in DOMAIN properties : properties[k].id = propertyId

C8_MustReject(userId, propertyId, startDate, endDate, paymentType) ==
  \/ userId = NoUser
  \/ paymentType \notin {"CASH", "ONLINE"}
  \/ ~PropertyExists(propertyId)
  \/ \E r \in ConflictRecords : r.propertyId = propertyId /\ Overlaps(r, startDate, endDate)

\* In every state, a request that is unauthenticated, names no valid payment
\* type, names a missing property or conflicts with a stored record is
\* answered with an error.
C8_Rejects ==
  \A userId \in BookingInputs.users, propertyId \in BookingInputs.properties,
     startDate \in BookingInputs.startDates, endDate \in BookingInputs.endDates,
     totalAmount \in BookingInputs.totals, paymentType \in BookingInputs.paymentTypes,
     installmentCount \in BookingInputs.counts :
    C8_MustReject(userId, propertyId, startDate, endDate, paymentType) =>
      LET decision == CreateDecision(userId, propertyId, startDate, endDate, totalAmount,
                                     paymentType, installmentCount)
      IN  /\ decision.next = "idle"
          /\ decision.response.code \in {400, 401, 404}

\* A request answered in the step that accepts it is a rejected one, and
\* that step changes no table.
C8_RejectionStep ==
  (served' = served + 1 /\ pc' = pc) =>
    /\ resp'.code \in {400, 401, 404}
    /\ store' = store

\* C8: a createBooking request rejected because the caller is
\* unauthenticated, the payment type is not CASH or ONLINE, the property does
\* not exist or the range conflicts with a stored conflict record writes
\* nothing: bookings, leases, conflict records, installments, invoices and
\* rental agreements are unchanged.
C8_RejectedWritesNothing == [](C8_Rejects) /\ [][C8_RejectionStep]_vars

\* A request rejected for a conflict while a booking is in the store.
C8_Witness ==
  /\ resp = Response(400, "Property not available for selected dates")
  /\ Len(bookings) > 0
  /\ Len(bookingConflicts) > 0

(***************************************************************************)
(* Properties of the installment schedule.                                 *)
(***************************************************************************)
\* A date's number in the sequence of days of the civil calendar.
LeapDaysBefore(y) == (y \div 4) - (y \div 100) + (y \div 400)

DaysBeforeMonth == <<0, 31, 59, 90, 120, 151, 181, 212, 243, 273, 304, 334>>

DayNumber(date) ==
  LET leap == (date.y % 4 = 0 /\ date.y % 100 # 0) \/ date.y % 400 = 0
  IN  365 * date.y + LeapDaysBefore(date.y - 1) + DaysBeforeMonth[date.m + 1]
        + (IF leap /\ date.m >= 2 THEN 1 ELSE 0)
        + date.d

IsCalendarDate(date) ==
  /\ date.m \in 0..11
  /\ date.d >= 1
  /\ DayNumber(date) < DayNumber([y |-> date.y + (date.m + 1) \div 12,
                                  m |-> (date.m + 1) % 12,
                                  d |-> 1])

\* D plus k months: the day of month counted on from the first of the month
\* k months after D's, running into the following month when that month is
\* too short.
IsMonthsAfter(due, D, k) ==
  /\ IsCalendarDate(due)
  /\ DayNumber(due) = DayNumber([y |-> D.y + (D.m + k) \div 12,
                                 m |-> (D.m + k) % 12,
                                 d |-> 1]) + D.d - 1

\* a is T / N exactly.
ExactShare(a, T, N) == a * N = T

\* a is T / N rounded to the cent, a half cent rounded up.
RoundedShare(a, T, N) == 0 - N < 2 * (a * N - T) /\ 2 * (a * N - T) <= N

InstallmentsOfBooking(table, bookingId) ==
  {table[k] : k \in {j \in DOMAIN table : table[j].bookingId = bookingId}}

C9_Schedule(rows, T, N, D, Share(_, _, _)) ==
  /\ Cardinality(rows) = N
  /\ \A i \in 1..N :
       \E r \in rows :
         /\ r.installmentNumber = i
         /\ Share(r.amount, T, N)
         /\ IsMonthsAfter(r.dueDate, D, i - 1)
         /\ r.status = "UNPAID"

C9_Created(p, Share(_, _, _)) ==
  (pc[p] = "create_confirm" /\ pc'[p] = "idle" /\ resp'.code = 201) =>
    C9_Schedule(InstallmentsOfBooking(installments', loc[p].bookingId),
                loc[p].totalAmount, loc[p].installmentCount, loc[p].startDate, Share)

RECURSIVE SumAmounts(_, _)
SumAmounts(table, bookingId) ==
  IF table = <<>> THEN 0
  ELSE (IF Head(table).bookingId = bookingId THEN Head(table).amount ELSE 0)
         + SumAmounts(Tail(table), bookingId)

\* C10: for every booking whose schedule has been generated, the stored
\* installment amounts sum to the booking's totalAmount within 1 cent.
C10_SumWithinOneCent ==
  \A k \in DOMAIN bookings :
    bookings[k].status = "CONFIRMED" =>
      Abs(SumAmounts(installments, bookings[k].id) - bookings[k].totalAmount) <= 1

(***************************************************************************)
(* Properties of online payment, the webhook and the callers' identity.    *)
(***************************************************************************)
InstallmentById(table, installmentId) ==
  CHOOSE r \in {table[k] : k \in DOMAIN table} : r.id = installmentId

\* The step that ends a successful online payInstallment: the installment is
\* UNPAID as before and carries the new invoice id and external id, one
\* PENDING transaction with those ids has been added, and the answer is the
\* invoice.
C11_OnlineEffects ==
  \A p \in Procs :
    (pc[p] = "pay_online_insert" /\ pc'[p] = "idle") =>
      LET l == loc[p]
          row == InstallmentById(installments', l.installmentId)
          added == paymentTransactions'[Len(paymentTransactions')]
      IN  /\ resp' = Response(200, "Payment invoice created successfully")
          /\ row.status = "UNPAID"
          /\ l.invoiceId # Null /\ row.xenditInvoiceId = l.invoiceId
          /\ \E t \in 0..now : l.externalId = ExternalId(l.installmentId, t)
          /\ row.xenditExternalId = l.externalId
          /\ Len(paymentTransactions') = Len(paymentTransactions) + 1
          /\ \A j \in DOMAIN paymentTransactions :
               paymentTransactions'[j] = paymentTransactions[j]
          /\ added.installmentId = l.installmentId
          /\ added.status = "PENDING"
          /\ added.xenditInvoiceId = l.invoiceId
          /\ added.xenditExternalId = l.externalId

\* An installment of an online booking turns PAID only in the installment
\* update of a webhook or of a manual confirmation.
C11_PaidOnlyLater ==
  \A k \in DOMAIN installments :
    (/\ BookingOf(installments[k]).paymentType = "ONLINE"
     /\ installments[k].status = "UNPAID"
     /\ installments'[k].status = "PAID") =>
      \E p \in Procs : pc[p] \in {"wh_update_installment", "confirm_update_installment"}

C11_OnlineEffectsHold == [][C11_OnlineEffects]_vars

\* C11: a successful online payInstallment on an UNPAID installment leaves
\* its status UNPAID, stores the new invoice id and external id on it, adds
\* exactly one PENDING payment transaction carrying those ids and returns
\* the invoice; the installment becomes PAID only by a later webhook or
\* manual confirmation.
C11_OnlinePayment == [][C11_OnlineEffects /\ C11_PaidOnlyLater]_vars

InvoiceFailed == Response(500, "Failed to create payment invoice")

\* C12: when the gateway invoice creation of an online payInstallment fails,
\* the request is answered as failed, no payment transaction row is created
\* and the installment is left exactly as it was.
C12_InvoiceFailureWritesNothing ==
  [][\A p \in Procs :
       (pc[p] = "pay_online_invoice" /\ pc'[p] = "idle") =>
         /\ resp' = InvoiceFailed
         /\ paymentTransactions' = paymentTransactions
         /\ installments' = installments]_vars

\* The gateway call has failed: the installment carries no gateway id and
\* there is no transaction.
C12_Witness ==
  /\ resp = InvoiceFailed
  /\ \A p \in Procs : pc[p] = "idle"
  /\ installments[1].status = "UNPAID"
  /\ installments[1].xenditInvoiceId = Null
  /\ installments[1].xenditExternalId = Null
  /\ paymentTransactions = <<>>

\* The deliveries a gateway or anyone else can send.
WebhookDeliveries ==
  [tokenMatches : BOOLEAN, status : WebhookStatusInputs,
   external_id : ExternalIdInputs, amount : WebhookAmountInputs,
   paid_at : 0..now, payment_method : WebhookMethodInputs]

WebhookDecisionOn(d) ==
  WebhookDecision(d.tokenMatches, d.status, d.external_id, d.amount, d.paid_at,
                  d.payment_method)

NoInstallmentHas(external_id) ==
  \A k \in DOMAIN installments : installments[k].xenditExternalId # external_id

\* An authenticated PAID delivery whose external id no installment carries
\* is answered with HTTP status 200.
C13_Acknowledged ==
  \A d \in WebhookDeliveries :
    (/\ d.tokenMatches
     /\ d.status = "PAID"
     /\ d.external_id # Null
     /\ NoInstallmentHas(d.external_id)) =>
      /\ WebhookDecisionOn(d).next = "idle"
      /\ WebhookDecisionOn(d).response.code = 200

\* The step that answers a delivery at once changes no table.
C13_AnsweredAtOnce ==
  (served' = served + 1 /\ pc' = pc /\ resp'.error \in {"Installment not found", "received"}) =>
    store' = store

\* C13: an authenticated gateway webhook with status PAID whose external id
\* matches no installment is acknowledged with HTTP status 200, raises no
\* unhandled error and changes no installment or transaction.
C13_UnknownInstallmentAcknowledged == [](C13_Acknowledged) /\ [][C13_AnsweredAtOnce]_vars

\* A delivery whose shared-secret header is missing or wrong is answered
\* 401, whether or not a secret is configured.
C14_Unauthorized ==
  \A d \in WebhookDeliveries :
    ~d.tokenMatches =>
      WebhookDecisionOn(d) = [next |-> "idle", response |-> Response(401, "Invalid webhook token")]

C14_RejectedAtOnce ==
  (served' = served + 1 /\ pc' = pc /\ resp'.error = "Invalid webhook token") =>
    store' = store

\* C14: a webhook request whose shared-secret header is missing or does not
\* equal the gateway secret is rejected as unauthorized and never changes any
\* installment or payment transaction, in every configuration of the
\* service, including one with no webhook secret configured.
C14_WebhookNeedsSecret == [](C14_Unauthorized) /\ [][C14_RejectedAtOnce]_vars

(***************************************************************************)
(* Properties of the booking's life cycle.                                 *)
(***************************************************************************)
CreateLabels ==
  {"create_insert_booking", "create_insert_lease", "create_insert_conflict",
   "create_insert_installments", "create_insert_invoices", "create_contract",
   "create_confirm"}

\* A request past the checks is never aborted: it leaves each step for the
\* next one, the contract step with the generated reference or with the
\* placeholder of its booking, and ends with the booking CONFIRMED and
\* carrying that reference.
C15_Step(p) ==
  /\ (pc[p] \in CreateLabels \ {"create_confirm"} /\ pc'[p] # pc[p]) =>
       pc'[p] \in CreateLabels
  /\ (pc[p] = "create_contract" /\ pc'[p] # pc[p]) =>
       /\ pc'[p] = "create_confirm"
       /\ loc'[p].contractPdfUrl \in {<<"generated", loc[p].bookingId>>,
                                      <<"placeholder", loc[p].bookingId>>}
  /\ (pc[p] = "create_confirm" /\ pc'[p] # pc[p]) =>
       LET b == bookings'[loc[p].bookingId[2]]
       IN  /\ pc'[p] = "idle"
           /\ resp'.code = 201
           /\ b.status = "CONFIRMED"
           /\ b.contractPdfUrl = Some(loc[p].contractPdfUrl)
           /\ loc[p].contractPdfUrl # <<>>

\* C15: every createBooking that passes the property and availability checks
\* and whose store writes succeed ends with the booking stored as CONFIRMED
\* with a non-empty contract reference, whether contract issuance succeeded
\* or failed; on failure the reference is the placeholder derived from the
\* booking id and the booking is not aborted.
C15_ConfirmedWithReference == [][\A p \in Procs : C15_Step(p)]_vars

\* A booking confirmed with the placeholder, its rental agreement carrying
\* the same reference.
C15_Witness ==
  \E k \in DOMAIN bookings :
    /\ bookings[k].status = "CONFIRMED"
    /\ bookings[k].contractPdfUrl = Some(<<"placeholder", bookings[k].id>>)
    /\ \E a \in DOMAIN rentalAgreements :
         rentalAgreements[a].pdfUrl = <<"placeholder", bookings[k].id>>
    /\ \A p \in Procs : pc[p] = "idle"

\* The order of the booking life cycle.
StatusRank(status) ==
  CASE status = "PENDING" -> 0
    [] status = "CONFIRMED" -> 1
    [] status = "ACTIVE" -> 2
    [] status = "COMPLETED" -> 3
    [] OTHER -> 0 - 1

LifecycleStatus == {"PENDING", "CONFIRMED", "ACTIVE", "COMPLETED", "CANCELLED"}

\* A change of status that the life cycle allows. A status that is no part
\* of the life cycle is left unconstrained.
MovesForward(from, to) ==
  \/ from = to
  \/ from \notin LifecycleStatus
  \/ to \notin LifecycleStatus
  \/ to = "CANCELLED" /\ from \notin {"COMPLETED", "CANCELLED"}
  \/ /\ from \notin {"COMPLETED", "CANCELLED"}
     /\ to # "CANCELLED"
     /\ StatusRank(from) < StatusRank(to)

CancelPaymentLabels == {"mobile_expire", "mobile_cancel_update"}

PaymentById(table, paymentId) == {k \in DOMAIN table : table[k].id = paymentId}

\* A cancelPayment request goes on to its writes only for a payment record
\* that is PENDING and belongs to a lease.
C17_TargetIsPending ==
  \A p \in Procs :
    pc[p] = "idle" /\ pc'[p] = "mobile_expire" =>
      \E k \in PaymentById(payment, loc'[p].paymentId) :
        /\ payment[k].status = "PENDING"
        /\ \E j \in DOMAIN leases : leases[j].id = payment[k].leaseId

\* A step of cancelPayment leaves every table other than payment as it is,
\* and changes payment at most in the status of the targeted record, which
\* becomes FAILED.
C17_CancelFrame ==
  \A p \in Procs :
    pc[p] \in CancelPaymentLabels /\ pc'[p] # pc[p] =>
      /\ installments' = installments
      /\ <<bookings, leases, bookingConflicts, invoices, rentalAgreements,
           paymentTransactions>>' =
         <<bookings, leases, bookingConflicts, invoices, rentalAgreements,
           paymentTransactions>>
      /\ \/ payment' = payment
         \/ \E k \in PaymentById(payment, loc[p].paymentId) :
              payment' = [payment EXCEPT ![k].status = "FAILED"]

\* C17: cancelPayment changes no installment (status, paid fields and
\* gateway ids stay as they are); its only write marks the targeted payment
\* record, which it found PENDING, FAILED.
C17_CancelPaymentOnlyFailsPayment == [][C17_TargetIsPending /\ C17_CancelFrame]_vars

\* A payment record has been cancelled, and the installment still is UNPAID
\* and carries the gateway's ids.
C17_Witness ==
  /\ resp = Response(200, "Payment cancelled successfully")
  /\ \E k \in DOMAIN payment : payment[k].status = "FAILED"
  /\ \A k \in DOMAIN installments :
       /\ installments[k].status = "UNPAID"
       /\ installments[k].xenditInvoiceId = XenditInvoiceId(1)
       /\ installments[k].xenditExternalId = ExternalId(installments[k].id, 0)

CallbackTransactionLabels == {"callback_payment", "callback_lease"}

\* Both updates of the callback at slot p become visible in this step: the
\* payment rows its first statement updated are COMPLETED and the lease
\* carries the callback's status.
C18_BothVisible(p) ==
  /\ payment' = [k \in DOMAIN payment |->
                   IF k \in loc[p].updated
                   THEN [payment[k] EXCEPT !.status = "COMPLETED"]
                   ELSE payment[k]]
  /\ \A k \in loc[p].updated : payment[k].leaseId = loc[p].external_id
  /\ leases' = [k \in DOMAIN leases |->
                  IF leases[k].id = loc[p].external_id
                  THEN [leases[k] EXCEPT !.status = loc[p].status]
                  ELSE leases[k]]

C18_NeitherVisible == payment' = payment /\ leases' = leases

\* C18: every step of the callback's transaction makes both of its updates
\* visible, the payment rows COMPLETED and the lease's status, or neither;
\* it makes neither visible when it ends in an error, and both only as its
\* last step.
C18_CallbackIsAtomic ==
  [][\A p \in Procs :
       pc[p] \in CallbackTransactionLabels /\ pc'[p] # pc[p] =>
         /\ C18_BothVisible(p) \/ C18_NeitherVisible
         /\ resp'.code = 500 \/ pc'[p] # "idle" => C18_NeitherVisible
         /\ pc'[p] = "idle" /\ resp'.code = 200 => C18_BothVisible(p)]_vars

\* A callback with the status SETTLED, which is no LeaseStatus, has updated
\* a payment row inside its transaction, and the row still reads PENDING.
C18_Witness ==
  \E p \in Procs :
    /\ pc[p] = "callback_lease"
    /\ loc[p].status = "SETTLED"
    /\ loc[p].updated # {}
    /\ \A k \in loc[p].updated : payment[k].status = "PENDING"

(***************************************************************************)
(* Properties of the rows createBooking leaves behind.                     *)
(***************************************************************************)
\* C19: every booking row of the store has installmentCount >= 1; a
\* createBooking request with an installmentCount of 0 or below leaves no
\* booking row.
C19_InstallmentCountPositive ==
  \A k \in DOMAIN bookings : bookings[k].installmentCount >= 1

(***************************************************************************)
(* Who can make an installment PAID.                                       *)
(***************************************************************************)
\* A well-formed payInstallment request of an authenticated user who is not
\* the tenant of the installment's booking is answered 404 before any write.
C20_OthersRejected ==
  \A k \in DOMAIN installments :
    \A userId \in Users \ {BookingOf(installments[k]).tenantId} :
      \A paymentMethod \in PaymentMethodInputs \cap ({""} \cup validPaymentMethods) :
        LET decision == PayDecision(userId, installments[k].id, paymentMethod)
        IN  decision.next = "idle" /\ decision.response.code = 404

\* The step that turns an installment PAID belongs to a payInstallment or
\* confirm-payment request of the booking's tenant, or to a webhook.
C20_PaidByTenantOrWebhook ==
  \A k \in DOMAIN installments :
    installments[k].status # "PAID" /\ installments'[k].status = "PAID" =>
      \E p \in Procs :
        /\ pc'[p] # pc[p]
        /\ loc[p] # Null
        /\ loc[p].installmentId = installments[k].id
        /\ \/ loc[p].kind = "pay"
           \/ loc[p].kind = "webhook"
           \/ /\ loc[p].kind = "confirm"
              /\ loc[p].userId = BookingOf(installments[k]).tenantId

\* C20: an installment becomes PAID only by a request of the tenant who owns
\* its booking or by a gateway webhook; payInstallment, confirm-payment and
\* simulate-payment-success requests of other callers are rejected as not
\* found and change nothing.
C20_PaidOnlyByOwnerOrGateway ==
  [](C20_OthersRejected) /\ [][C20_PaidByTenantOrWebhook]_vars

(***************************************************************************)
(* Webhooks for earlier invoices, the cash path, manual confirmation.      *)
(***************************************************************************)
\* C21: for every gateway invoice an online payInstallment created (a
\* payment transaction carrying its external id), an authenticated webhook
\* with status PAID and that external id is taken up for the transaction's
\* installment, which it sets PAID while it marks the transaction
\* COMPLETED, also when a newer invoice was created for the installment.
C21_EveryInvoiceCanBePaid ==
  \A k \in DOMAIN paymentTransactions :
    paymentTransactions[k].xenditExternalId # Null =>
      \A d \in WebhookDeliveries :
        (/\ d.tokenMatches
         /\ d.status = "PAID"
         /\ d.external_id = paymentTransactions[k].xenditExternalId) =>
          /\ WebhookDecisionOn(d).next = "wh_update_installment"
          /\ WebhookDecisionOn(d).locals.installmentId = paymentTransactions[k].installmentId

WellFormedMethods == PaymentMethodInputs \cap ({""} \cup validPaymentMethods)

UnpaidInstallments == {k \in DOMAIN installments : installments[k].status = "UNPAID"}

\* What the two writes of the cash path leave: the installment PAID with its
\* full amount and the time of the write, then one more transaction, of this
\* installment, for the same amount, COMPLETED.
C22_CashEffects ==
  \A p \in Procs :
    /\ (pc[p] = "pay_cash_update" /\ pc'[p] = "pay_cash_insert") =>
         \A k \in DOMAIN installments :
           installments[k].id = loc[p].installmentId =>
             /\ installments'[k].status = "PAID"
             /\ installments'[k].paidAmount = Some(installments[k].amount)
             /\ installments'[k].paidAt = Some(now)
    /\ (pc[p] = "pay_cash_insert" /\ pc'[p] = "idle") =>
         /\ resp' = Response(200, "Cash payment recorded successfully")
         /\ Len(paymentTransactions') = Len(paymentTransactions) + 1
         /\ \A j \in DOMAIN paymentTransactions :
              paymentTransactions'[j] = paymentTransactions[j]
         /\ LET added == paymentTransactions'[Len(paymentTransactions')]
            IN  /\ added.installmentId = loc[p].installmentId
                /\ added.status = "COMPLETED"
                /\ \A k \in DOMAIN installments :
                     installments[k].id = added.installmentId =>
                       added.amount = installments[k].amount

\* The tenant's payInstallment with method CASH on an UNPAID installment goes
\* straight to the cash update, whatever the booking's payment type.
C22_MethodSelectsPath ==
  \A k \in UnpaidInstallments :
    PayDecision(BookingOf(installments[k]).tenantId, installments[k].id, "CASH").next
      = "pay_cash_update"

\* C22 as stated: payInstallment with payment method CASH on any UNPAID
\* installment owned by the caller immediately sets it PAID, with paid amount
\* equal to the full installment amount and one COMPLETED payment
\* transaction, whatever the payment type of the booking; the requested
\* method selects the path.
C22_CashMethodPaysAtOnce == [](C22_MethodSelectsPath) /\ [][C22_CashEffects]_vars

\* The tenant's payInstallment on an UNPAID installment goes straight to the
\* cash update exactly when the booking's payment type is CASH, whatever
\* the requested method.
C22_BookingSelectsPath ==
  \A k \in UnpaidInstallments :
    \A paymentMethod \in WellFormedMethods :
      (PayDecision(BookingOf(installments[k]).tenantId, installments[k].id,
                   paymentMethod).next = "pay_cash_update")
        <=> BookingOf(installments[k]).paymentType = "CASH"

\* C22, amended: payInstallment on an UNPAID installment owned by the caller
\* whose booking has payment type CASH immediately sets it PAID, with paid
\* amount equal to the full installment amount and one COMPLETED payment
\* transaction, whatever the requested method; the booking's payment type
\* selects the path.
C22_CashBookingPaysAtOnce == [](C22_BookingSelectsPath) /\ [][C22_CashEffects]_vars

\* A cash payment of a cash booking has been recorded.
C22_Witness ==
  /\ resp = Response(200, "Cash payment recorded successfully")
  /\ bookings[1].paymentType = "CASH"
  /\ installments[1].status = "PAID"
  /\ installments[1].paidAmount = Some(installments[1].amount)
  /\ \E j \in DOMAIN paymentTransactions :
       /\ paymentTransactions[j].status = "COMPLETED"
       /\ paymentTransactions[j].paymentType = "CASH"

\* A confirm-payment request goes on to the gateway only for an installment
\* of the caller's booking that carries the supplied invoice id and is not
\* PAID.
C23_Preconditions ==
  \A p \in Procs :
    (pc[p] = "idle" /\ pc'[p] = "confirm_verify") =>
      \E k \in DOMAIN installments :
        /\ installments[k].id = loc'[p].installmentId
        /\ BookingOf(installments[k]).tenantId = loc'[p].userId
        /\ installments[k].xenditInvoiceId = loc'[p].xenditInvoiceId
        /\ installments[k].status # "PAID"

\* A status the gateway reports that is not PAID stops the confirmation.
C23_OtherStatusStops ==
  \A answer \in GatewayAnswers \ {"unavailable", "PAID"} : ~ConfirmProceeds(answer)

\* Only the handler's installment update, which follows the gateway's
\* answer, sets the installment PAID for a confirmation; a request that ends
\* at the lookup or at the gateway's answer changes no table.
C23_Effects ==
  \A p \in Procs :
    /\ (pc[p] \in {"idle", "confirm_verify"}
        /\ pc'[p] \in {"idle", "confirm_verify", "confirm_update_installment"}
        /\ (loc[p] # Null => loc[p].kind = "confirm")
        /\ (loc'[p] # Null => loc'[p].kind = "confirm")
        /\ \A q \in Procs \ {p} : pc'[q] = pc[q]) =>
         store' = store
    /\ (pc[p] = "confirm_verify" /\ pc'[p] = "idle") =>
         resp' = Response(400, "Payment not completed")

\* C23: manual confirmation sets an installment PAID only when the caller is
\* the booking's tenant, the supplied gateway invoice id equals the one
\* stored on the installment and the installment is not already PAID; when
\* the gateway reports another status than PAID the request is rejected and
\* the installment and its transactions stay as they are.
C23_ConfirmationIsChecked ==
  [](C23_OtherStatusStops) /\ [][C23_Preconditions /\ C23_Effects]_vars

\* A confirmation was stopped by the gateway's answer: the installment is
\* UNPAID and its transaction PENDING.
C23_Witness ==
  /\ resp = Response(400, "Payment not completed")
  /\ \A p \in Procs : pc[p] = "idle"
  /\ installments[1].status = "UNPAID"
  /\ \E j \in DOMAIN paymentTransactions : paymentTransactions[j].status = "PENDING"

(***************************************************************************)
(* The status of payment records.                                          *)
(***************************************************************************)
PaymentStatusStep(from, to) ==
  from = to \/ (from = "PENDING" /\ to \in {"COMPLETED", "FAILED"})

\* C24: the status of a payment record changes only from PENDING to
\* COMPLETED or from PENDING to FAILED; no callback, cancelPayment, webhook
\* or manual confirmation moves a record out of COMPLETED or out of FAILED.
C24_PaymentStatusIsTerminal ==
  [][/\ \A k \in DOMAIN payment :
          PaymentStatusStep(payment[k].status, payment'[k].status)
     /\ \A k \in DOMAIN paymentTransactions :
          PaymentStatusStep(paymentTransactions[k].status, paymentTransactions'[k].status)]_vars

CreateWriteLabels ==
  {"create_insert_lease", "create_insert_conflict", "create_insert_installments",
   "create_insert_invoices", "create_contract", "create_confirm"}

OverdueNow(bookingId) ==
  {k \in DOMAIN installments :
     /\ installments[k].bookingId = bookingId
     /\ installments[k].status = "UNPAID"
     /\ ~DateLE(ClockDate(now), installments[k].dueDate)}

\* C27: every endpoint that reports overdue installments counts an
\* installment as overdue exactly when its stored status is UNPAID and its
\* due date is before now: the unpaid-installments split, the booking-detail
\* summary and the counts of the user's booking list agree with that
\* predicate.
C27_OverdueIsConsistent ==
  /\ \A userId \in Users :
       Cardinality(unpaidOverdue(userId, now)) =
         Cardinality(UNION {OverdueNow(bookings[k].id) :
                              k \in {j \in DOMAIN bookings : bookings[j].tenantId = userId}})
  /\ \A k \in DOMAIN bookings :
       Cardinality(storedOverdue(bookings[k].id)) = Cardinality(OverdueNow(bookings[k].id))
  /\ (resp.code = 200 /\ "endpoint" \in DOMAIN resp /\ resp.endpoint = "getBookingById") =>
       \E k \in DOMAIN bookings : resp.overdue = Cardinality(OverdueNow(bookings[k].id))

(***************************************************************************)
(* Installments and their payment transactions.                            *)
(***************************************************************************)
NoRequestInProgress == \A p \in Procs : pc[p] = "idle"

\* C29: whenever no payment request is in progress, an installment is PAID
\* if and only if it has at least one payment transaction with status
\* COMPLETED.
C29_PaidIffCompletedTransaction ==
  NoRequestInProgress =>
    \A k \in DOMAIN installments :
      installments[k].status = "PAID" <=> CompletedTransactions(installments[k].id) # {}

(***************************************************************************)
(* Properties of the read cache.                                           *)
(***************************************************************************)
\* C28: the read cache is fully invalidated on writes: a GET of the property
\* types always answers with the rows stored at that moment, never with a
\* response cached before a create, update or delete of a property type.
C28_PropertyTypesAreStored ==
  [][(served' # served /\ resp'.endpoint = "getAllPropertyTypes")
       => resp'.data = [data |-> propertyTypes, total |-> Len(propertyTypes)]]_vars

====
